---- MODULE Spec2Model ----
(***************************************************************************)
(* Model of n8n-nodes-superiorapis:                                        *)
(*   - handleSSERequest (SuperiorApisMcp.node.ts): the SSE stream client   *)
(*   - SuperiorApisMcp.execute: the MCP batch loop                         *)
(*   - SuperiorApis.getPluginListCached / loadOptions / resourceMapping    *)
(*   - SuperiorApis.execute: the request assembler and its batch loop      *)
(* Each component has its own specification (SpecSSE, SpecCache, ...);     *)
(* the variables of the other components stay at their idle values.        *)
(***************************************************************************)
EXTENDS Integers, Sequences, FiniteSets, TLC

(***************************************************************************)
(* ---------------------------- bounds ----------------------------------- *)
(***************************************************************************)
\* number of data chunks the server delivers on one SSE stream
MaxChunks == 3
\* number of bytes the server delivers on one SSE stream
MaxStream == 14
\* largest configured SSE timeout, in clock ticks
MaxTimeout == 2
\* how far the SSE clock runs, in clock ticks
MaxClock == 4
\* number of getApiList calls
MaxLookups == 3
\* milliseconds by which Date.now() advances in one step of the cache clock
TickMs == 150000
\* number of steps of the cache clock
MaxNowTicks == 2
\* largest number of input items of one execute call
MaxItems == 2
\* largest number of parameters / body properties of a generated operation
MaxFields == 3

(***************************************************************************)
(* ------------------------ SSE stream client ---------------------------- *)
(* The stream text is a sequence of atoms.  "NL" is one newline, "SP" one  *)
(* blank, "D" the six characters `data: `, "DONE" the text `[DONE]`,       *)
(* "J1"/"J2" JSON objects without result/error key, "R" a JSON object with *)
(* a result key, "E" one with an error key, "NULL" the JSON text `null`,   *)
(* "X" non-blank text that is neither JSON nor starts with `data: `.       *)
(* "Q" is a double quote; "U1" and "U2" are the two bytes of one two-byte  *)
(* UTF-8 character, "CH" that character once decoded, "FFFD" the           *)
(* replacement character a decoder puts for a byte it cannot place.        *)
(***************************************************************************)
VARIABLES
    conn,        \* connection: "sent" | "open" | "ended" | "destroyed" | "errored"
    buffer,      \* let buffer = ''
    sseData,     \* const sseData: any[] = []
    isResolved,  \* let isResolved = false
    timeoutId,   \* timer: "unset" | "armed" | "cleared" | "fired"
    deadline,    \* clock value at which the armed timer fires
    timeout,     \* the timeout argument of handleSSERequest, in ticks
    clock,       \* ticks since req.end()
    promise,     \* the promise returned by handleSSERequest
    settledBy,   \* which handler settled the promise
    stream,      \* all text the data handler has appended to buffer so far
    rawBytes,    \* all bytes the server has delivered so far
    nChunks      \* number of data events so far

varsSSE == <<conn, buffer, sseData, isResolved, timeoutId, deadline, timeout,
             clock, promise, settledBy, stream, rawBytes, nChunks>>

(***************************************************************************)
(* --------------------------- Descriptor Cache -------------------------- *)
(***************************************************************************)
VARIABLES
    staticList,  \* workflowStaticData[cacheKey], per token prefix
    staticTime,  \* workflowStaticData[cacheTimeKey], per token prefix
    lookups,     \* the getApiList calls in progress: position, token, now
    calls,       \* per token prefix, the lookups made so far and how they went
    last,        \* the getApiList call that returned last, and what it returned
    now          \* Date.now(), in milliseconds

varsCache == <<staticList, staticTime, lookups, calls, last, now>>

(***************************************************************************)
(* --------------- the two execute functions (batch loops) --------------- *)
(***************************************************************************)
VARIABLES
    node,            \* which node runs: "api" (SuperiorApis) or "mcp" (SuperiorApisMcp)
    continueOnFail,  \* this.continueOnFail()
    nItems,          \* items.length
    i,               \* the loop index
    pc,              \* "loop" | "await" | "returned" | "thrown"
    returnData,      \* const returnData: INodeExecutionData[] = []
    item,            \* the parameters read for the item in progress, or
                     \* for the item that reached the catch block last
    request,         \* the outbound request of item i
    outcomes         \* per processed item: failed / ok / skipped, and with what

varsBatch == <<node, continueOnFail, nItems, i, pc, returnData, item, request, outcomes>>

(***************************************************************************)
(* ---------- loadOptions / resourceMapping (editor call-backs) ---------- *)
(***************************************************************************)
VARIABLES
    loadOp,                \* the method the editor called
    loadParams,            \* the parameters it reads with getNodeParameter
    loadPc,                \* "idle" | "list" | "details" | "returned"
    scenariosWithContent,  \* the callbacks of Promise.all, settled or not
    returned,              \* the list the method returned
    listResponse           \* what became of the scenario-list POST

varsLoad == <<loadOp, loadParams, loadPc, scenariosWithContent, returned, listResponse>>

(***************************************************************************)
(* ----------------- descriptor codec (encode / decode) ------------------ *)
(***************************************************************************)
VARIABLES
    pluginData,   \* the object getApiList encodes
    encodedData,  \* the option value made of it
    decoded,      \* what JSON.parse makes of the decoded value
    codecPc       \* "idle" | "built" | "encoded" | "decoded"

varsCodec == <<pluginData, encodedData, decoded, codecPc>>

vars == <<varsSSE, varsCache, varsBatch, varsLoad, varsCodec>>

\* the variables each component leaves alone
notSSE == <<varsCache, varsBatch, varsLoad, varsCodec>>
notCache == <<varsSSE, varsBatch, varsLoad, varsCodec>>
notBatch == <<varsSSE, varsCache, varsLoad, varsCodec>>
notLoad == <<varsSSE, varsCache, varsBatch, varsCodec>>
notCodec == <<varsSSE, varsCache, varsBatch, varsLoad>>

JsonAtoms == {"J1", "J2", "R", "E", "NULL"}

\* String.prototype.trim on a sequence of atoms: blanks and newlines go
RECURSIVE TrimLeft(_)
TrimLeft(s) ==
    IF s = <<>> THEN <<>>
    ELSE IF Head(s) \in {"SP", "NL"} THEN TrimLeft(Tail(s)) ELSE s

RECURSIVE TrimRight(_)
TrimRight(s) ==
    IF s = <<>> THEN <<>>
    ELSE IF s[Len(s)] \in {"SP", "NL"} THEN TrimRight(SubSeq(s, 1, Len(s) - 1)) ELSE s

Trim(s) == TrimRight(TrimLeft(s))

\* buffer.split('\n\n'): leftmost, non-overlapping separators
RECURSIVE Split2NL(_, _)
Split2NL(s, cur) ==
    IF s = <<>> THEN <<cur>>
    ELSE IF Len(s) >= 2 /\ s[1] = "NL" /\ s[2] = "NL"
         THEN <<cur>> \o Split2NL(SubSeq(s, 3, Len(s)), <<>>)
         ELSE Split2NL(Tail(s), Append(cur, Head(s)))

\* event.split('\n')
RECURSIVE SplitNL(_, _)
SplitNL(s, cur) ==
    IF s = <<>> THEN <<cur>>
    ELSE IF Head(s) = "NL"
         THEN <<cur>> \o SplitNL(Tail(s), <<>>)
         ELSE SplitNL(Tail(s), Append(cur, Head(s)))

\* line.startsWith('data: ')
StartsWithData(line) == line # <<>> /\ Head(line) = "D"

\* line.substring(6).trim()
DataContent(line) == Trim(Tail(line))

\* chunk.toString(): UTF-8 decoding of the bytes of one chunk; a lead byte
\* without its continuation byte in the same chunk, and a continuation
\* byte without its lead byte, each become one replacement character
RECURSIVE ChunkToString(_)
ChunkToString(chunk) ==
    IF chunk = <<>> THEN <<>>
    ELSE IF Head(chunk) = "U1"
    THEN IF Len(chunk) >= 2 /\ chunk[2] = "U2"
         THEN <<"CH">> \o ChunkToString(SubSeq(chunk, 3, Len(chunk)))
         ELSE <<"FFFD">> \o ChunkToString(Tail(chunk))
    ELSE IF Head(chunk) = "U2" THEN <<"FFFD">> \o ChunkToString(Tail(chunk))
    ELSE <<Head(chunk)>> \o ChunkToString(Tail(chunk))

\* the text is a JSON string literal: characters between two quotes
IsStringLiteral(dc) ==
    /\ Len(dc) >= 2
    /\ dc[1] = "Q"
    /\ dc[Len(dc)] = "Q"
    /\ \A n \in 2..(Len(dc) - 1) : dc[n] \in {"CH", "FFFD"}

\* a JSON.parse that never throws
JsonOkAlways(dc) == TRUE

\* JSON.parse(dataContent) succeeds
JsonOk(dc) == (Len(dc) = 1 /\ dc[1] \in JsonAtoms) \/ IsStringLiteral(dc)

\* the value JSON.parse(dataContent) returns; a string is named after its
\* characters
JsonVal(dc) ==
    IF Len(dc) = 1 THEN dc[1]
    ELSE CASE SubSeq(dc, 2, Len(dc) - 1) = <<>> -> "S()"
           [] SubSeq(dc, 2, Len(dc) - 1) = <<"CH">> -> "S(CH)"
           [] SubSeq(dc, 2, Len(dc) - 1) = <<"FFFD">> -> "S(FFFD)"
           [] SubSeq(dc, 2, Len(dc) - 1) = <<"FFFD", "FFFD">> -> "S(FFFD,FFFD)"
           [] OTHER -> "S(...)"

\* jsonData.result !== undefined || jsonData.error !== undefined
\* (on null the property read throws inside the try and is swallowed)
IsRpcResponse(m) == m \in {"R", "E"}

\* the inner `for (const line of lines)` of the data handler;
\* stop is "none" when the loop ran to its end, else the reason of the return
RECURSIVE ProcLinesNoReturn(_, _)
ProcLinesNoReturn(lines, acc) ==
    IF lines = <<>> THEN [acc |-> acc, stop |-> "none"]
    ELSE LET line == Head(lines) IN
         IF ~StartsWithData(line) THEN ProcLinesNoReturn(Tail(lines), acc)
         ELSE LET dc == DataContent(line) IN
              IF dc = <<"DONE">> THEN [acc |-> acc, stop |-> "done"]
              ELSE IF JsonOk(dc)
                   THEN IF IsRpcResponse(JsonVal(dc))
                        THEN [acc |-> ProcLinesNoReturn(Tail(lines), Append(acc, JsonVal(dc))).acc,
                              stop |-> "terminal"]
                        ELSE ProcLinesNoReturn(Tail(lines), Append(acc, JsonVal(dc)))
                   ELSE ProcLinesNoReturn(Tail(lines), acc)

RECURSIVE ProcLines(_, _)
ProcLines(lines, acc) ==
    IF lines = <<>> THEN [acc |-> acc, stop |-> "none"]
    ELSE LET line == Head(lines) IN
         IF ~StartsWithData(line) THEN ProcLines(Tail(lines), acc)
         ELSE LET dc == DataContent(line) IN
              IF dc = <<"DONE">> THEN [acc |-> acc, stop |-> "done"]
              ELSE IF JsonOk(dc)
                   THEN IF IsRpcResponse(JsonVal(dc))
                        THEN [acc |-> Append(acc, JsonVal(dc)), stop |-> "terminal"]
                        ELSE ProcLines(Tail(lines), Append(acc, JsonVal(dc)))
                   ELSE ProcLines(Tail(lines), acc)

\* an outer loop that goes on with the later events after a return
RECURSIVE ProcEventsRunsOn(_, _)
ProcEventsRunsOn(events, acc) ==
    IF events = <<>> THEN [acc |-> acc, stop |-> "none"]
    ELSE IF Trim(Head(events)) = <<>> THEN ProcEventsRunsOn(Tail(events), acc)
    ELSE LET r == ProcLines(SplitNL(Head(events), <<>>), acc) IN
         IF r.stop # "none"
         THEN [acc |-> ProcEventsRunsOn(Tail(events), r.acc).acc, stop |-> r.stop]
         ELSE ProcEventsRunsOn(Tail(events), r.acc)

\* the outer `for (const event of events)` of the data handler
RECURSIVE ProcEvents(_, _)
ProcEvents(events, acc) ==
    IF events = <<>> THEN [acc |-> acc, stop |-> "none"]
    ELSE IF Trim(Head(events)) = <<>> THEN ProcEvents(Tail(events), acc)
    ELSE LET r == ProcLines(SplitNL(Head(events), <<>>), acc) IN
         IF r.stop # "none" THEN r ELSE ProcEvents(Tail(events), r.acc)

\* a flush loop that pushes nothing
FlushLinesNothing(lines, acc) == acc

\* the flush loop of the end handler: every parseable data line is pushed
RECURSIVE FlushLines(_, _)
FlushLines(lines, acc) ==
    IF lines = <<>> THEN acc
    ELSE LET line == Head(lines) IN
         IF StartsWithData(line) /\ JsonOk(DataContent(line))
         THEN FlushLines(Tail(lines), Append(acc, JsonVal(DataContent(line))))
         ELSE FlushLines(Tail(lines), acc)

\* the value a settled promise carries: resolve(sseData) hands out the
\* array itself, so later pushes would show through it
PromiseValue == IF promise.alias THEN sseData ELSE promise.value

Pending == [state |-> "pending", value |-> <<>>, alias |-> FALSE]
ResolvedWithSseData == [state |-> "resolved", value |-> <<>>, alias |-> TRUE]

\* a resolve that hands out the messages of the buffered data lines when
\* there are some
ResolvedWithBufferedLines(v) ==
    [state |-> "resolved",
     value |-> IF FlushLines(SplitNL(buffer, <<>>), <<>>) # <<>>
               THEN FlushLines(SplitNL(buffer, <<>>), <<>>)
               ELSE v,
     alias |-> FALSE]

\* resolve(v) with a fresh array
ResolvedWith(v) == [state |-> "resolved", value |-> v, alias |-> FALSE]

Rejected(msg) == [state |-> "rejected", value |-> <<msg>>, alias |-> FALSE]

\* [{ error: 'SSE timeout - no data received' }]
TimeoutRecord == <<"SSE timeout - no data received">>

\* the chunks a server may deliver in one data event
ChunkSet ==
    { <<"D", "J1", "NL", "NL">>,
      <<"D", "J2", "NL", "NL">>,
      <<"D", "R", "NL", "NL">>,
      <<"D", "SP", "E", "SP", "NL", "NL">>,
      <<"D", "DONE", "NL", "NL">>,
      <<"D", "X", "NL", "NL">>,
      <<"D", "NULL", "NL", "NL">>,
      <<"X", "NL", "D", "J1", "NL">>,
      <<"D", "R", "NL", "D", "J2", "NL", "NL">>,
      <<"D", "E", "NL", "NL", "D", "J1", "NL", "NL">>,
      <<"D", "J2">>,
      <<"D", "R", "NL">>,
      <<"NL">>,
      <<"SP", "NL", "NL">>,
      <<"D", "J1", "NL", "D", "DONE", "NL", "D", "J2", "NL", "NL", "D", "R", "NL", "NL">>,
      <<"D", "J1", "NL", "D", "X", "NL", "D", "J2", "NL", "NL">>,
      <<"D", "Q", "U1", "U2", "Q", "NL", "NL">>,
      <<"D", "Q", "U1">>,
      <<"U2", "Q", "NL", "NL">> }

Timeouts == 1..MaxTimeout

\* httpModule.request callback: the response headers arrived, the timer is armed
ServerResponse ==
    /\ conn = "sent"
    /\ conn' = "open"
    /\ timeoutId' = "armed"
    /\ deadline' = clock + timeout
    /\ UNCHANGED <<buffer, sseData, isResolved, timeout, clock, promise,
                   settledBy, stream, rawBytes, nChunks>>
    /\ UNCHANGED notSSE

\* a timer callback that rejects the promise
TimeoutFireRejects ==
    /\ timeoutId = "armed"
    /\ clock >= deadline
    /\ timeoutId' = "fired"
    /\ IF ~isResolved
       THEN /\ isResolved' = TRUE
            /\ conn' = "destroyed"
            /\ promise' = Rejected("SSE timeout")
            /\ settledBy' = "timeout"
       ELSE UNCHANGED <<isResolved, conn, promise, settledBy>>
    /\ UNCHANGED <<buffer, sseData, deadline, timeout, clock, stream, rawBytes, nChunks>>
    /\ UNCHANGED notSSE

\* the setTimeout callback
TimeoutFire ==
    /\ timeoutId = "armed"
    /\ clock >= deadline
    /\ timeoutId' = "fired"
    /\ IF ~isResolved
       THEN /\ isResolved' = TRUE
            /\ conn' = "destroyed"
            /\ promise' = IF Len(sseData) > 0 THEN ResolvedWithSseData
                          ELSE ResolvedWith(TimeoutRecord)
            /\ settledBy' = "timeout"
       ELSE UNCHANGED <<isResolved, conn, promise, settledBy>>
    /\ UNCHANGED <<buffer, sseData, deadline, timeout, clock, stream, rawBytes, nChunks>>
    /\ UNCHANGED notSSE

\* res.on('data'); req.destroy() drops the data listeners of the response
\* (ClientRequest.destroy calls res._dump()), so no data event follows it
ServerData(chunk) ==
    /\ conn = "open"
    /\ nChunks < MaxChunks
    /\ Len(rawBytes) + Len(chunk) <= MaxStream
    /\ nChunks' = nChunks + 1
    /\ stream' = stream \o ChunkToString(chunk)
    /\ rawBytes' = rawBytes \o chunk
    /\ LET events == Split2NL(buffer \o ChunkToString(chunk), <<>>)
           r == ProcEvents(SubSeq(events, 1, Len(events) - 1), sseData)
       IN /\ buffer' = events[Len(events)]
          /\ sseData' = r.acc
          /\ IF r.stop # "none"
             THEN /\ timeoutId' = IF timeoutId = "armed" THEN "cleared" ELSE timeoutId
                  /\ IF ~isResolved
                     THEN /\ isResolved' = TRUE
                          /\ conn' = "destroyed"
                          /\ promise' = ResolvedWithSseData
                          /\ settledBy' = r.stop
                     ELSE UNCHANGED <<isResolved, conn, promise, settledBy>>
             ELSE UNCHANGED <<timeoutId, isResolved, conn, promise, settledBy>>
    /\ UNCHANGED <<deadline, timeout, clock>>
    /\ UNCHANGED notSSE

\* an end handler that flushes the buffer and resolves whatever isResolved
\* says
ServerEndUnguarded ==
    /\ conn \in {"open", "destroyed"}
    /\ timeoutId' = IF timeoutId = "armed" THEN "cleared" ELSE timeoutId
    /\ isResolved' = TRUE
    /\ sseData' = IF Trim(buffer) # <<>>
                  THEN FlushLines(SplitNL(buffer, <<>>), sseData)
                  ELSE sseData
    /\ promise' = ResolvedWithSseData
    /\ settledBy' = "end"
    /\ conn' = "ended"
    /\ UNCHANGED <<buffer, deadline, timeout, clock, stream, rawBytes, nChunks>>
    /\ UNCHANGED notSSE

\* res.on('end'); after req.destroy() the handler finds isResolved set
ServerEnd ==
    /\ conn \in {"open", "destroyed"}
    /\ timeoutId' = IF timeoutId = "armed" THEN "cleared" ELSE timeoutId
    /\ IF ~isResolved
       THEN /\ isResolved' = TRUE
            /\ sseData' = IF Trim(buffer) # <<>>
                          THEN FlushLines(SplitNL(buffer, <<>>), sseData)
                          ELSE sseData
            /\ promise' = ResolvedWithSseData
            /\ settledBy' = "end"
       ELSE UNCHANGED <<sseData, isResolved, promise, settledBy>>
    /\ conn' = "ended"
    /\ UNCHANGED <<buffer, deadline, timeout, clock, stream, rawBytes, nChunks>>
    /\ UNCHANGED notSSE

\* a response error handler that hands out what was collected
ResErrorResolves ==
    /\ conn \in {"open", "destroyed"}
    /\ timeoutId' = IF timeoutId = "armed" THEN "cleared" ELSE timeoutId
    /\ IF ~isResolved
       THEN /\ isResolved' = TRUE
            /\ promise' = ResolvedWithSseData
            /\ settledBy' = "resError"
       ELSE UNCHANGED <<isResolved, promise, settledBy>>
    /\ conn' = "errored"
    /\ UNCHANGED <<buffer, sseData, deadline, timeout, clock, stream, rawBytes, nChunks>>
    /\ UNCHANGED notSSE

\* res.on('error')
ResError ==
    /\ conn \in {"open", "destroyed"}
    /\ timeoutId' = IF timeoutId = "armed" THEN "cleared" ELSE timeoutId
    /\ IF ~isResolved
       THEN /\ isResolved' = TRUE
            /\ promise' = Rejected("SSE response error")
            /\ settledBy' = "resError"
       ELSE UNCHANGED <<isResolved, promise, settledBy>>
    /\ conn' = "errored"
    /\ UNCHANGED <<buffer, sseData, deadline, timeout, clock, stream, rawBytes, nChunks>>
    /\ UNCHANGED notSSE

\* req.on('error')
ReqError ==
    /\ conn \in {"sent", "open"}
    /\ timeoutId' = IF timeoutId = "armed" THEN "cleared" ELSE timeoutId
    /\ IF ~isResolved
       THEN /\ isResolved' = TRUE
            /\ promise' = Rejected("SSE request error")
            /\ settledBy' = "reqError"
       ELSE UNCHANGED <<isResolved, promise, settledBy>>
    /\ conn' = "errored"
    /\ UNCHANGED <<buffer, sseData, deadline, timeout, clock, stream, rawBytes, nChunks>>
    /\ UNCHANGED notSSE

\* wall-clock time passes; an armed timer fires when it is due
Tick ==
    /\ clock < MaxClock
    /\ ~(timeoutId = "armed" /\ clock >= deadline)
    /\ clock' = clock + 1
    /\ UNCHANGED <<conn, buffer, sseData, isResolved, timeoutId, deadline,
                   timeout, promise, settledBy, stream, rawBytes, nChunks>>
    /\ UNCHANGED notSSE

NextSSE ==
    \/ ServerResponse
    \/ TimeoutFire
    \/ \E chunk \in ChunkSet : ServerData(chunk)
    \/ ServerEnd
    \/ ResError
    \/ ReqError
    \/ Tick

(***************************************************************************)
(* ----------------------- catalog and descriptors ----------------------- *)
(* An object is a record; an object whose key order matters               *)
(* (Object.keys) is a sequence of entries.                                 *)
(***************************************************************************)
OpGetWeather ==
    [summary |-> "Get weather",
     parameters |-> << [name |-> "city", in |-> "query", required |-> TRUE],
                       [name |-> "X-Trace", in |-> "header", required |-> FALSE] >>,
     hasRequestBody |-> FALSE,
     content |-> << >>]

OpPostWeather ==
    [summary |-> "",
     parameters |-> << [name |-> "units", in |-> "query", required |-> FALSE] >>,
     hasRequestBody |-> TRUE,
     content |-> << [mime |-> "application/json",
                     properties |-> <<"note", "temp">>,
                     required |-> {"temp"}] >>]

OpPostUpload ==
    [summary |-> "Upload",
     parameters |-> << >>,
     hasRequestBody |-> TRUE,
     content |-> << [mime |-> "multipart/form-data", properties |-> << >>, required |-> {}],
                    [mime |-> "application/json", properties |-> <<"file">>, required |-> {}] >>]

InterfaceWeather ==
    [defined |-> TRUE,
     paths |-> << [path |-> "/weather",
                   methods |-> << [verb |-> "get", op |-> OpGetWeather],
                                  [verb |-> "post", op |-> OpPostWeather] >>] >>]

InterfaceUpload ==
    [defined |-> TRUE,
     paths |-> << [path |-> "/upload",
                   methods |-> << [verb |-> "post", op |-> OpPostUpload] >>] >>]

\* item.plugin of the catalog response; docId is what the two regular
\* expressions find in description_for_human ("" when there is no match)
PluginWeather ==
    [id |-> "p-weather", name_for_human |-> "Weather", version |-> "1.0",
     docId |-> "3b52426bfe33", interface |-> InterfaceWeather]

PluginUpload ==
    [id |-> "p-upload", name_for_human |-> "Upload", version |-> "",
     docId |-> "", interface |-> InterfaceUpload]

\* an operation with a parameter in each of the four OpenAPI locations,
\* and a header parameter named token
OpGetOrder ==
    [summary |-> "Get order",
     parameters |-> << [name |-> "page", in |-> "query", required |-> FALSE],
                       [name |-> "id", in |-> "path", required |-> TRUE],
                       [name |-> "session", in |-> "cookie", required |-> FALSE],
                       [name |-> "X-Trace", in |-> "header", required |-> FALSE],
                       [name |-> "token", in |-> "header", required |-> FALSE] >>,
     hasRequestBody |-> FALSE,
     content |-> << >>]

PluginOrders ==
    [id |-> "p-orders", name_for_human |-> "Orders", version |-> "1.0",
     docId |-> "",
     interface |-> [defined |-> TRUE,
                    paths |-> << [path |-> "/orders/{id}",
                                  methods |-> << [verb |-> "get", op |-> OpGetOrder] >>] >>]]

\* the name of the n-th parameter / property of a generated operation
FieldName(n) ==
    CASE n = 1 -> "a" [] n = 2 -> "b" [] n = 3 -> "c" [] n = 4 -> "d" [] OTHER -> "e"

\* an operation with one parameter and one JSON body property per flag, in
\* that order, required where the flag is set
OpFields(flags) ==
    [summary |-> "Fields",
     parameters |-> [n \in 1..Len(flags) |->
                        [name |-> FieldName(n),
                         in |-> IF n % 2 = 1 THEN "query" ELSE "header",
                         required |-> flags[n]]],
     hasRequestBody |-> TRUE,
     content |-> << [mime |-> "application/json",
                     properties |-> [n \in 1..Len(flags) |-> FieldName(n)],
                     required |-> {FieldName(n) : n \in {m \in 1..Len(flags) : flags[m]}}] >>]

\* a plugin whose single path declares that operation under post
PluginFields(flags) ==
    [id |-> "p-fields", name_for_human |-> "Fields", version |-> "2.0",
     docId |-> "",
     interface |-> [defined |-> TRUE,
                    paths |-> << [path |-> "/fields",
                                  methods |-> << [verb |-> "post",
                                                  op |-> OpFields(flags)] >>] >>]]

\* an operation whose requestBody declares the given content types, in that
\* order (none: requestBody.content is an empty object)
OpContent(mimes) ==
    [summary |-> "Content",
     parameters |-> << >>,
     hasRequestBody |-> TRUE,
     content |-> [n \in 1..Len(mimes) |->
                    [mime |-> mimes[n], properties |-> << >>, required |-> {}]]]

\* a plugin whose single path declares that operation under post, patch and
\* delete, and an operation without requestBody under put
PluginContent(mimes) ==
    [id |-> "p-content", name_for_human |-> "Content", version |-> "1.0",
     docId |-> "",
     interface |-> [defined |-> TRUE,
                    paths |-> << [path |-> "/content",
                                  methods |-> << [verb |-> "post", op |-> OpContent(mimes)],
                                                 [verb |-> "put", op |-> OpGetWeather],
                                                 [verb |-> "patch", op |-> OpContent(mimes)],
                                                 [verb |-> "delete",
                                                  op |-> OpContent(mimes)] >>] >>]]

\* Buffer.from(JSON.stringify(pluginData)).toString('base64')
EncodeSelection(descriptor) == [kind |-> "base64", json |-> TRUE, data |-> descriptor]

\* the pluginData object getApiList builds for one plugin
PluginData(plugin) ==
    [id |-> plugin.id,
     interfaceId |-> plugin.docId,
     version |-> plugin.version,
     name |-> plugin.name_for_human,
     interface |-> plugin.interface]

\* the option getApiList returns for one plugin
PluginOption(plugin) ==
    [name |-> plugin.name_for_human, value |-> EncodeSelection(PluginData(plugin))]

(***************************************************************************)
(* getPluginListCached and getApiList                                      *)
(***************************************************************************)
\* token.substring(0, 20)
KeyChars == 20

\* 5 * 60 * 1000
CACHE_DURATION == 5 * 60 * 1000

\* a token of 21 characters: the first and the last one vary
Tok(a, b) == [c \in 1..(KeyChars + 1) |->
                 IF c = 1 THEN a ELSE IF c = KeyChars + 1 THEN b ELSE 0]

TokenA1 == Tok(1, 1)
TokenA2 == Tok(1, 2)
TokenB == <<2, 2>>
NoToken == << >>

Tokens == {NoToken, TokenA1, TokenA2, TokenB}

\* a cache key made of the whole token
CacheKeyWholeToken(token) == token

\* `plugins_list_${token.substring(0, 20)}`
CacheKey(token) ==
    SubSeq(token, 1, IF Len(token) < KeyChars THEN Len(token) ELSE KeyChars)

CacheKeys == {CacheKey(t) : t \in Tokens \ {NoToken}}

\* what the catalog endpoint may answer; the plugin list is the token's own
RespList1 == [truthy |-> TRUE, hasPlugins |-> TRUE, plugins |-> <<PluginWeather>>]
RespList2 == [truthy |-> TRUE, hasPlugins |-> TRUE, plugins |-> <<PluginUpload, PluginWeather>>]
RespNoPlugins == [truthy |-> TRUE, hasPlugins |-> FALSE, plugins |-> << >>]
RespEmpty == [truthy |-> FALSE, hasPlugins |-> FALSE, plugins |-> << >>]

CatalogOf(token) == IF token = TokenA2 THEN RespList2 ELSE RespList1

Responses(token) == {CatalogOf(token), RespNoPlugins, RespEmpty}

Undefined == [defined |-> FALSE, val |-> RespEmpty]
UndefinedTime == [defined |-> FALSE, val |-> 0]
Defined(v) == [defined |-> TRUE, val |-> v]

\* workflowStaticData[cacheKey] && cachedTime && now - cachedTime <= CACHE_DURATION
CacheValidInclusive(list, time, t) ==
    /\ list.defined /\ list.val.truthy
    /\ time.defined /\ time.val # 0
    /\ t - time.val <= CACHE_DURATION

\* workflowStaticData[cacheKey] && cachedTime && now - cachedTime < CACHE_DURATION
CacheValid(list, time, t) ==
    /\ list.defined /\ list.val.truthy
    /\ time.defined /\ time.val # 0
    /\ t - time.val < CACHE_DURATION

\* the tail of getApiList: the options made from the catalog response
ApiOptions(response) ==
    IF ~response.truthy \/ ~response.hasPlugins THEN << >>
    ELSE [n \in 1..Len(response.plugins) |-> PluginOption(response.plugins[n])]

Lookups == 1..MaxLookups

IdleLookup == [pc |-> "idle", token |-> NoToken, at |-> 0, idx |-> 0]
DoneLookup == [pc |-> "done", token |-> NoToken, at |-> 0, idx |-> 0]

NoLast == [id |-> 0, token |-> NoToken, posted |-> FALSE, outcome |-> "none", result |-> << >>]

\* no lookup of this key is suspended at its POST
NoneAwaiting(k) ==
    \A m \in Lookups : lookups[m].pc = "awaiting" => CacheKey(lookups[m].token) # k

\* getApiList up to its first suspension: the token check, then the
\* synchronous part of getPluginListCached (cache hit, or the POST is sent)
GetApiListCall(l, token) ==
    /\ lookups[l].pc = "idle"
    /\ \A m \in Lookups : m < l => lookups[m].pc # "idle"
    /\ IF token = NoToken
       THEN /\ lookups' = [lookups EXCEPT ![l] = DoneLookup]
            /\ last' = [id |-> l, token |-> token, posted |-> FALSE,
                        outcome |-> "notoken", result |-> << >>]
            /\ UNCHANGED calls
       ELSE LET k == CacheKey(token) IN
            IF CacheValid(staticList[k], staticTime[k], now)
            THEN /\ lookups' = [lookups EXCEPT ![l] = DoneLookup]
                 /\ last' = [id |-> l, token |-> token, posted |-> FALSE,
                             outcome |-> "hit",
                             result |-> ApiOptions(staticList[k].val)]
                 /\ calls' = [calls EXCEPT ![k] = Append(@,
                                [at |-> now, posted |-> FALSE, outcome |-> "hit",
                                 priorDone |-> NoneAwaiting(k)])]
            ELSE /\ lookups' = [lookups EXCEPT ![l] =
                        [pc |-> "awaiting", token |-> token, at |-> now,
                         idx |-> Len(calls[k]) + 1]]
                 /\ calls' = [calls EXCEPT ![k] = Append(@,
                                [at |-> now, posted |-> TRUE, outcome |-> "awaiting",
                                 priorDone |-> NoneAwaiting(k)])]
                 /\ UNCHANGED last
    /\ UNCHANGED <<staticList, staticTime, now>>
    /\ UNCHANGED notCache

\* an update that stores the entry and leaves the timestamp as it was
UpstreamRespondNoTimestamp(l, response) ==
    /\ lookups[l].pc = "awaiting"
    /\ response \in Responses(lookups[l].token)
    /\ LET k == CacheKey(lookups[l].token)
           how == IF response.truthy THEN "stored" ELSE "storedEmpty"
       IN /\ staticList' = [staticList EXCEPT ![k] = Defined(response)]
          /\ UNCHANGED staticTime
          /\ calls' = [calls EXCEPT ![k][lookups[l].idx].outcome = how]
          /\ last' = [id |-> l, token |-> lookups[l].token, posted |-> TRUE,
                      outcome |-> how, result |-> ApiOptions(response)]
    /\ lookups' = [lookups EXCEPT ![l] = DoneLookup]
    /\ UNCHANGED now
    /\ UNCHANGED notCache

\* the catalog POST returns: the entry and its timestamp are stored, and
\* getApiList maps the response to options
UpstreamRespond(l, response) ==
    /\ lookups[l].pc = "awaiting"
    /\ response \in Responses(lookups[l].token)
    /\ LET k == CacheKey(lookups[l].token)
           how == IF response.truthy THEN "stored" ELSE "storedEmpty"
       IN /\ staticList' = [staticList EXCEPT ![k] = Defined(response)]
          /\ staticTime' = [staticTime EXCEPT ![k] = Defined(lookups[l].at)]
          /\ calls' = [calls EXCEPT ![k][lookups[l].idx].outcome = how]
          /\ last' = [id |-> l, token |-> lookups[l].token, posted |-> TRUE,
                      outcome |-> how, result |-> ApiOptions(response)]
    /\ lookups' = [lookups EXCEPT ![l] = DoneLookup]
    /\ UNCHANGED now
    /\ UNCHANGED notCache

\* a getApiList without its try/catch: the failure of the POST reaches the
\* caller
UpstreamFailThrows(l) ==
    /\ lookups[l].pc = "awaiting"
    /\ calls' = [calls EXCEPT ![CacheKey(lookups[l].token)][lookups[l].idx].outcome = "failed"]
    /\ last' = [id |-> l, token |-> lookups[l].token, posted |-> TRUE,
                outcome |-> "threw", result |-> << >>]
    /\ lookups' = [lookups EXCEPT ![l] = DoneLookup]
    /\ UNCHANGED <<staticList, staticTime, now>>
    /\ UNCHANGED notCache

\* the catalog POST fails: getPluginListCached throws, getApiList catches
UpstreamFail(l) ==
    /\ lookups[l].pc = "awaiting"
    /\ calls' = [calls EXCEPT ![CacheKey(lookups[l].token)][lookups[l].idx].outcome = "failed"]
    /\ last' = [id |-> l, token |-> lookups[l].token, posted |-> TRUE,
                outcome |-> "failed", result |-> << >>]
    /\ lookups' = [lookups EXCEPT ![l] = DoneLookup]
    /\ UNCHANGED <<staticList, staticTime, now>>
    /\ UNCHANGED notCache

\* time passes
AdvanceNow ==
    /\ now < TickMs * (MaxNowTicks + 1)
    /\ now' = now + TickMs
    /\ UNCHANGED <<staticList, staticTime, lookups, calls, last>>
    /\ UNCHANGED notCache

AllResponses == {RespList1, RespList2, RespNoPlugins, RespEmpty}

NextCache ==
    \/ \E l \in Lookups, token \in Tokens : GetApiListCall(l, token)
    \/ \E l \in Lookups : UpstreamFail(l)
    \/ \E l \in Lookups, response \in AllResponses : UpstreamRespond(l, response)
    \/ AdvanceNow

(***************************************************************************)
(* ------------------ SuperiorApis.execute: one item --------------------- *)
(* A JavaScript object is a function from its keys to values.  A JSON text *)
(* parameter is [kind, val]: "empty" is '', "braces" is '{}', "object" a   *)
(* text that parses to val, "malformed" a text JSON.parse rejects.         *)
(***************************************************************************)
EmptyObject == [k \in {} |-> ""]

\* { ...a, ...b }
Spread(a, b) ==
    [k \in (DOMAIN a) \cup (DOMAIN b) |-> IF k \in DOMAIN b THEN b[k] ELSE a[k]]

\* delete a[key]
Delete(a, key) == [k \in (DOMAIN a) \ {key} |-> a[k]]

\* a[key] = v
Assign(a, key, v) == [k \in (DOMAIN a) \cup {key} |-> IF k = key THEN v ELSE a[k]]

\* a reduce that keeps the names of the rows and loses their values
RECURSIVE ReduceRowsKeepNames(_, _)
ReduceRowsKeepNames(rows, acc) ==
    IF rows = << >> THEN acc
    ELSE ReduceRowsKeepNames(Tail(rows), Assign(acc, Head(rows).name, Head(rows).name))

\* params.parameter.reduce((acc, p) => { acc[p.name] = p.value; return acc }, {})
RECURSIVE ReduceRows(_, _)
ReduceRows(rows, acc) ==
    IF rows = << >> THEN acc
    ELSE ReduceRows(Tail(rows), Assign(acc, Head(rows).name, Head(rows).value))

EmptyText == [kind |-> "empty", val |-> EmptyObject]
BracesText == [kind |-> "braces", val |-> EmptyObject]
MalformedText == [kind |-> "malformed", val |-> EmptyObject]
JsonText(obj) == [kind |-> "object", val |-> obj]

\* JSON.parse(text) returns (rather than throws)
Parses(text) == text.kind \in {"braces", "object"}

\* String.toUpperCase / toLowerCase on the verbs in use
ToUpperCase(v) ==
    CASE v = "get" -> "GET" [] v = "post" -> "POST" [] v = "put" -> "PUT"
      [] v = "patch" -> "PATCH" [] v = "delete" -> "DELETE" [] OTHER -> v

ToLowerCase(v) ==
    CASE v = "GET" -> "get" [] v = "POST" -> "post" [] v = "PUT" -> "put"
      [] v = "PATCH" -> "patch" [] v = "DELETE" -> "delete" [] OTHER -> v

\* JSON.parse(Buffer.from(apiSelection, 'base64').toString()) returns
Decodes(selection) == selection.kind = "base64" /\ selection.json

\* pathMethods[verb], undefined when the verb is not declared
HasMethod(pathMethods, verb) == \E n \in 1..Len(pathMethods) : pathMethods[n].verb = verb
MethodData(pathMethods, verb) ==
    pathMethods[CHOOSE n \in 1..Len(pathMethods) : pathMethods[n].verb = verb].op

Undef == [defined |-> FALSE]
Def(v) == [defined |-> TRUE, val |-> v]

Ok(req) == [ok |-> TRUE, error |-> "", req |-> req]
Throw(msg) == [ok |-> FALSE, error |-> msg, req |-> Undef]

\* credential headers merged over the seed without deleting their token key
CredentialHeadersKeepToken(headers, credHeaders) == Spread(headers, credHeaders)

\* delete credHeaders.token; headers = { ...headers, ...credHeaders }
CredentialHeaders(headers, credHeaders) == Spread(headers, Delete(credHeaders, "token"))

\* delete userHeaders.token; headers = { ...headers, ...userHeaders }
UserHeaders(headers, userHeaders) == Spread(headers, Delete(userHeaders, "token"))

\* a forEach whose query_ fields give way to a value already in the query
RECURSIVE ApplyMappedKeepsUser(_, _, _)
ApplyMappedKeepsUser(rows, query, headers) ==
    IF rows = << >> THEN [query |-> query, headers |-> headers]
    ELSE LET key == Head(rows).key
             value == Head(rows).value
         IN IF key[1] = "query"
            THEN IF key[2] \in DOMAIN query
                 THEN ApplyMappedKeepsUser(Tail(rows), query, headers)
                 ELSE ApplyMappedKeepsUser(Tail(rows), Assign(query, key[2], value), headers)
            ELSE IF key[1] = "header"
            THEN IF key[2] # "token"
                 THEN ApplyMappedKeepsUser(Tail(rows), query, Assign(headers, key[2], value))
                 ELSE ApplyMappedKeepsUser(Tail(rows), query, headers)
            ELSE ApplyMappedKeepsUser(Tail(rows), query, headers)

\* the forEach over parametersFields.value: query_* keys go to the query,
\* header_* keys other than header_token to the headers; a key is the pair
\* <<text before the first underscore, text after it>>
RECURSIVE ApplyMapped(_, _, _)
ApplyMapped(rows, query, headers) ==
    IF rows = << >> THEN [query |-> query, headers |-> headers]
    ELSE LET key == Head(rows).key
             value == Head(rows).value
         IN IF key[1] = "query"
            THEN ApplyMapped(Tail(rows), Assign(query, key[2], value), headers)
            ELSE IF key[1] = "header"
            THEN IF key[2] # "token"
                 THEN ApplyMapped(Tail(rows), query, Assign(headers, key[2], value))
                 ELSE ApplyMapped(Tail(rows), query, headers)
            ELSE ApplyMapped(Tail(rows), query, headers)

\* a body resolution that sends no body when bodyJson does not parse
ResolveBodyLenient(scenario, bodyJson) ==
    IF scenario # "" /\ scenario # "no_scenario" /\ scenario # "error" /\ Parses(bodyJson)
       /\ bodyJson.kind # "braces"
    THEN Ok(Def(bodyJson.val))
    ELSE Ok(Undef)

\* the body of the request: bodyJson is read for every scenario value other
\* than '', 'no_scenario' and 'error'
ResolveBody(scenario, bodyJson) ==
    IF scenario # "" /\ scenario # "no_scenario" /\ scenario # "error"
    THEN IF bodyJson.kind \in {"empty", "braces"} THEN Ok(Undef)
         ELSE IF ~Parses(bodyJson) THEN Throw("Failed to parse body JSON")
         ELSE Ok(Def(bodyJson.val))
    ELSE Ok(Undef)

\* String.includes on the content types in use
Includes(mime, part) ==
    \/ mime = part
    \/ mime = "application/json; charset=utf-8" /\ part = "application/json"

\* the Content-Type derived from the first declared content type
InferredContentType(mime) ==
    IF Includes(mime, "multipart/form-data") THEN "multipart/form-data"
    ELSE IF Includes(mime, "application/json") THEN "application/json"
    ELSE IF Includes(mime, "application/x-www-form-urlencoded")
    THEN "application/x-www-form-urlencoded"
    ELSE mime

\* the Content-Type auto-detection block: the headers it leaves, or the
\* TypeError of contentTypes[0].includes when the declared content is an
\* empty object; a header whose value is '' counts as not set
AutoContentType(method, pathMethods, headers) ==
    IF method \in {"POST", "PUT", "PATCH"}
       /\ HasMethod(pathMethods, ToLowerCase(method))
       /\ MethodData(pathMethods, ToLowerCase(method)).hasRequestBody
       /\ ("Content-Type" \notin DOMAIN headers \/ headers["Content-Type"] = "")
    THEN IF MethodData(pathMethods, ToLowerCase(method)).content = << >>
         THEN Throw("Cannot read properties of undefined (reading 'includes')")
         ELSE Ok(Assign(headers, "Content-Type",
                        InferredContentType(
                            MethodData(pathMethods, ToLowerCase(method)).content[1].mime)))
    ELSE Ok(headers)

\* the try block of one loop iteration up to `await this.helpers.httpRequest`
AssembleRequest(p) ==
    IF p.token = "" THEN Throw("Token is required")
    ELSE IF p.apiSelection.kind = "empty" THEN Throw("Please select an API from the list")
    ELSE IF ~Decodes(p.apiSelection) THEN Throw("Unexpected token in JSON")
    ELSE IF ~p.apiSelection.data.interface.defined
         THEN Throw("Cannot read properties of undefined (reading 'paths')")
    ELSE
    LET paths == p.apiSelection.data.interface.paths
        firstPath == paths[1].path
        pathMethods == paths[1].methods
        method == IF p.method = "" THEN ToUpperCase(pathMethods[1].verb) ELSE p.method
        url == <<p.baseUri, firstPath>>
        seed == [token |-> p.token]
    IN
    IF p.credHeaders.kind # "empty" /\ ~Parses(p.credHeaders)
    THEN Throw("Unexpected token in JSON")
    ELSE
    LET h1 == IF p.credHeaders.kind = "empty" THEN seed
              ELSE CredentialHeaders(seed, p.credHeaders.val)
    IN
    IF p.sendHeaders /\ p.specifyHeaders # "keypair" /\ ~Parses(p.headersJson)
    THEN Throw("Unexpected token in JSON")
    ELSE
    LET h2 == IF ~p.sendHeaders THEN h1
              ELSE IF p.specifyHeaders = "keypair"
                   THEN IF p.headers.hasParameter
                        THEN UserHeaders(h1, ReduceRows(p.headers.parameter, EmptyObject))
                        ELSE h1
                   ELSE UserHeaders(h1, p.headersJson.val)
    IN
    IF p.sendQuery /\ p.specifyQuery # "keypair" /\ ~Parses(p.queryParametersJson)
    THEN Throw("Unexpected token in JSON")
    ELSE
    LET q1 == IF ~p.sendQuery THEN EmptyObject
              ELSE IF p.specifyQuery = "keypair"
                   THEN IF p.queryParameters.hasParameter
                        THEN ReduceRows(p.queryParameters.parameter, EmptyObject)
                        ELSE EmptyObject
                   ELSE p.queryParametersJson.val
        mapped == IF p.parametersFields.hasValue
                  THEN ApplyMapped(p.parametersFields.value, q1, h2)
                  ELSE [query |-> q1, headers |-> h2]
        body == ResolveBody(p.scenario, p.bodyJson)
        typed == AutoContentType(method, pathMethods, mapped.headers)
    IN
    IF ~body.ok THEN Throw(body.error)
    ELSE IF ~typed.ok THEN Throw(typed.error)
    ELSE Ok([method |-> method,
             url |-> url,
             qs |-> mapped.query,
             headers |-> typed.req,
             body |-> body.req])

(***************************************************************************)
(* The parameters one item may carry.  DefaultItem is a plain GET item;    *)
(* each family below varies the parameters that meet in one stage of the   *)
(* assembly, in every combination.                                         *)
(***************************************************************************)
NoRows == [hasParameter |-> FALSE, parameter |-> << >>]
Rows(rows) == [hasParameter |-> TRUE, parameter |-> rows]

NoMapping == [hasValue |-> FALSE, value |-> << >>]
Mapping(rows) == [hasValue |-> TRUE, value |-> rows]

EmptySelection == [kind |-> "empty", json |-> FALSE, data |-> PluginData(PluginWeather)]
GarbageSelection == [kind |-> "base64", json |-> FALSE, data |-> PluginData(PluginWeather)]
WeatherSelection == EncodeSelection(PluginData(PluginWeather))
UploadSelection == EncodeSelection(PluginData(PluginUpload))
OrdersSelection == EncodeSelection(PluginData(PluginOrders))

\* the resource-mapper value of an editor that filled in one field per
\* parameter of the operation, under the id `${param.in}_${param.name}`
FilledFields(selection, verb) ==
    LET parameters == MethodData(selection.data.interface.paths[1].methods, verb).parameters
    IN [hasValue |-> TRUE,
        value |-> [n \in 1..Len(parameters) |->
                      [key |-> <<parameters[n].in, parameters[n].name>>,
                       value |-> parameters[n].name]]]

\* a selection that decodes to JSON without an `interface` key
BareSelection ==
    EncodeSelection([PluginData(PluginWeather) EXCEPT
                        !.interface = [defined |-> FALSE, paths |-> << >>]])

Selections ==
    {EmptySelection, GarbageSelection, BareSelection, WeatherSelection, UploadSelection}

DefaultItem ==
    [token |-> "t1",
     apiSelection |-> WeatherSelection,
     method |-> "",
     baseUri |-> "https://superiorapis-creator.cteam.com.tw",
     credHeaders |-> EmptyText,
     sendHeaders |-> FALSE,
     specifyHeaders |-> "keypair",
     headers |-> NoRows,
     headersJson |-> BracesText,
     sendQuery |-> FALSE,
     specifyQuery |-> "keypair",
     queryParameters |-> NoRows,
     queryParametersJson |-> BracesText,
     parametersFields |-> NoMapping,
     scenario |-> "",
     bodyJson |-> EmptyText,
     bodyFields |-> NoMapping]

CredHeaderTexts ==
    {EmptyText, MalformedText,
     JsonText([token |-> "cred-token", Accept |-> "cred"]),
     JsonText([Accept |-> "cred", Origin |-> "cred-origin"])}

\* sendHeaders, specifyHeaders, headers, headersJson as the user may set them
HeaderInputs ==
    { [sendHeaders |-> FALSE, specifyHeaders |-> "keypair", headers |-> NoRows,
       headersJson |-> BracesText],
      [sendHeaders |-> TRUE, specifyHeaders |-> "keypair", headers |-> NoRows,
       headersJson |-> BracesText],
      [sendHeaders |-> TRUE, specifyHeaders |-> "keypair",
       headers |-> Rows(<< [name |-> "token", value |-> "row-token"],
                           [name |-> "Accept", value |-> "row"] >>),
       headersJson |-> BracesText],
      [sendHeaders |-> TRUE, specifyHeaders |-> "json", headers |-> NoRows,
       headersJson |-> JsonText(Assign([token |-> "json-token", Accept |-> "json"],
                                       "Content-Type", "text/plain"))],
      [sendHeaders |-> TRUE, specifyHeaders |-> "json", headers |-> NoRows,
       headersJson |-> MalformedText] }

QueryInputs ==
    { [sendQuery |-> FALSE, specifyQuery |-> "keypair", queryParameters |-> NoRows,
       queryParametersJson |-> BracesText],
      [sendQuery |-> TRUE, specifyQuery |-> "keypair",
       queryParameters |-> Rows(<< [name |-> "city", value |-> "Paris"] >>),
       queryParametersJson |-> BracesText],
      [sendQuery |-> TRUE, specifyQuery |-> "keypair",
       queryParameters |-> Rows(<< [name |-> "q", value |-> "a b"] >>),
       queryParametersJson |-> BracesText],
      [sendQuery |-> TRUE, specifyQuery |-> "json", queryParameters |-> NoRows,
       queryParametersJson |-> JsonText([city |-> "Rome", units |-> "si"])],
      [sendQuery |-> TRUE, specifyQuery |-> "json", queryParameters |-> NoRows,
       queryParametersJson |-> MalformedText] }

MappedParameters ==
    { NoMapping,
      Mapping(<< [key |-> <<"header", "token">>, value |-> "mapped-token"],
                 [key |-> <<"header", "Accept">>, value |-> "mapped"],
                 [key |-> <<"query", "city">>, value |-> "Oslo"] >>),
      Mapping(<< [key |-> <<"header", "Trace">>, value |-> "mapped-trace"],
                 [key |-> <<"query", "units">>, value |-> "metric"],
                 [key |-> <<"query", "page">>, value |-> "2"] >>) }

Scenarios == {"", "no_use_scenario", "no_scenario", "error", "scenario-1"}

BodyTexts == {EmptyText, BracesText, MalformedText, JsonText([temp |-> "21"])}

MappedBodies ==
    { NoMapping, Mapping(<< [key |-> <<"body", "note">>, value |-> "hello"] >>) }

\* selections whose operations declare each shape of requestBody content
ContentSelections ==
    { EncodeSelection(PluginData(PluginContent(mimes))) :
        mimes \in { << >>, <<"application/json">>,
                    <<"multipart/form-data", "application/json">>,
                    <<"application/x-www-form-urlencoded">>, <<"text/xml">>,
                    <<"application/json; charset=utf-8">> } }

\* the sources of a Content-Type header: none, a header row (with a value,
\* with an empty value, under a lower-case name), the credential headers,
\* a mapped header_ field
ContentTypeInputs ==
    { [credHeaders |-> EmptyText, sendHeaders |-> FALSE, headers |-> NoRows,
       parametersFields |-> NoMapping],
      [credHeaders |-> EmptyText, sendHeaders |-> TRUE,
       headers |-> Rows(<< [name |-> "Content-Type", value |-> "text/plain"] >>),
       parametersFields |-> NoMapping],
      [credHeaders |-> EmptyText, sendHeaders |-> TRUE,
       headers |-> Rows(<< [name |-> "Content-Type", value |-> ""] >>),
       parametersFields |-> NoMapping],
      [credHeaders |-> EmptyText, sendHeaders |-> TRUE,
       headers |-> Rows(<< [name |-> "content-type", value |-> "text/plain"] >>),
       parametersFields |-> NoMapping],
      [credHeaders |-> JsonText(Assign(EmptyObject, "Content-Type", "text/csv")),
       sendHeaders |-> FALSE, headers |-> NoRows, parametersFields |-> NoMapping],
      [credHeaders |-> EmptyText, sendHeaders |-> FALSE, headers |-> NoRows,
       parametersFields |->
           Mapping(<< [key |-> <<"header", "Content-Type">>, value |-> "text/html"] >>)] }

\* the items: token, selection and method in every combination; the header
\* inputs; the query inputs; the body inputs; the Content-Type inputs; the
\* filled-in parameter fields
ItemParams ==
    { [DefaultItem EXCEPT !.apiSelection = s, !.method = "GET",
                          !.scenario = "no_use_scenario",
                          !.parametersFields = FilledFields(s, "get")] :
        s \in {WeatherSelection, OrdersSelection} }
    \cup
    { [DefaultItem EXCEPT !.token = t, !.apiSelection = s, !.method = m] :
        t \in {"", "t1"}, s \in Selections, m \in {"", "GET", "POST"} }
    \cup
    { [DefaultItem EXCEPT !.apiSelection = s, !.credHeaders = c,
                          !.sendHeaders = h.sendHeaders,
                          !.specifyHeaders = h.specifyHeaders,
                          !.headers = h.headers,
                          !.headersJson = h.headersJson,
                          !.parametersFields = m] :
        s \in {WeatherSelection, UploadSelection}, c \in CredHeaderTexts,
        h \in HeaderInputs, m \in MappedParameters }
    \cup
    { [DefaultItem EXCEPT !.token = t, !.apiSelection = s, !.method = v,
                          !.baseUri = b,
                          !.sendQuery = q.sendQuery,
                          !.specifyQuery = q.specifyQuery,
                          !.queryParameters = q.queryParameters,
                          !.queryParametersJson = q.queryParametersJson,
                          !.parametersFields = m] :
        t \in {"t1", "t2"}, s \in {WeatherSelection, UploadSelection},
        v \in {"", "GET"}, b \in {DefaultItem.baseUri, "http://localhost:8080"},
        q \in QueryInputs, m \in MappedParameters }
    \cup
    { [DefaultItem EXCEPT !.method = m, !.scenario = s, !.bodyJson = b,
                          !.bodyFields = f] :
        m \in {"GET", "POST"}, s \in Scenarios, b \in BodyTexts, f \in MappedBodies }
    \cup
    { [DefaultItem EXCEPT !.apiSelection = s, !.method = m,
                          !.credHeaders = c.credHeaders,
                          !.sendHeaders = c.sendHeaders,
                          !.headers = c.headers,
                          !.parametersFields = c.parametersFields] :
        s \in ContentSelections, m \in {"", "POST", "PUT", "PATCH", "DELETE"},
        c \in ContentTypeInputs }

\* what helpers.httpRequest may return to SuperiorApis.execute
ApiReplies ==
    { [kind |-> "object", obj |-> [status |-> "ok"], text |-> ""],
      [kind |-> "text", obj |-> EmptyObject, text |-> "plain"] }

RequestFailed == "Request failed with status code 500"

(***************************************************************************)
(* --------------- SuperiorApisMcp.execute: one item --------------------- *)
(***************************************************************************)
Operations ==
    {"initialize", "tools/list", "tools/call", "resources/list", "resources/read",
     "prompts/list", "prompts/get"}

\* the `parameters` text of tools/call and prompts/get
ParameterTexts == {BracesText, MalformedText, JsonText([q |-> "1"])}

\* a line of credentials.headers: eq is line.indexOf('='), name and value
\* the trimmed texts on its two sides
HeaderLines ==
    << [eq |-> 5, name |-> "X-Key", value |-> "k"],
       [eq |-> -1, name |-> "", value |-> ""],
       [eq |-> 0, name |-> "", value |-> "lost"],
       [eq |-> 2, name |-> "", value |-> "blank"],
       [eq |-> 12, name |-> "Content-Type", value |-> "text/plain"] >>

\* credentials.headers: the text and whether it is truthy
HeaderBlobs == { [truthy |-> FALSE, lines |-> << >>], [truthy |-> TRUE, lines |-> HeaderLines] }

McpItems ==
    [connectionType : {"sse", "http", "stdio"},
     operation : Operations,
     toolName : {"search"},
     promptName : {"greet"},
     resourceUri : {"file:///a"},
     parameters : ParameterTexts,
     dateNow : {1700000000},
     url : {"https://mcp.example/endpoint"},
     credTimeout : {0, 30000},
     headers : HeaderBlobs]

\* an envelope that carries params for every operation
McpEnvelopeAlwaysParams(p) ==
    [jsonrpc |-> "2.0", method |-> p.operation, id |-> p.dateNow,
     params |-> IF p.operation = "resources/read"
                THEN [uri |-> p.resourceUri]
                ELSE [name |-> IF p.operation = "prompts/get" THEN p.promptName
                               ELSE p.toolName,
                      arguments |-> p.parameters.val]]

\* the mcpRequest object
McpEnvelope(p) ==
    LET base == [jsonrpc |-> "2.0", method |-> p.operation, id |-> p.dateNow]
    IN IF p.operation = "tools/call"
       THEN [jsonrpc |-> base.jsonrpc, method |-> base.method, id |-> base.id,
             params |-> [name |-> p.toolName, arguments |-> p.parameters.val]]
       ELSE IF p.operation = "resources/read"
       THEN [jsonrpc |-> base.jsonrpc, method |-> base.method, id |-> base.id,
             params |-> [uri |-> p.resourceUri]]
       ELSE IF p.operation = "prompts/get"
       THEN [jsonrpc |-> base.jsonrpc, method |-> base.method, id |-> base.id,
             params |-> [name |-> p.promptName, arguments |-> p.parameters.val]]
       ELSE base

\* JSON.parse(paramsString) of tools/call and prompts/get throws
EnvelopeThrows(p) ==
    p.operation \in {"tools/call", "prompts/get"} /\ ~Parses(p.parameters)

\* the loop over headerLines
RECURSIVE ParseHeaderLines(_, _)
ParseHeaderLines(lines, mcpHeaders) ==
    IF lines = << >> THEN mcpHeaders
    ELSE LET line == Head(lines)
         IN IF line.eq > 0 /\ line.name # ""
            THEN ParseHeaderLines(Tail(lines), Assign(mcpHeaders, line.name, line.value))
            ELSE ParseHeaderLines(Tail(lines), mcpHeaders)

\* mcpHeaders after `if (credentials.headers) { ... }`
CustomHeaders(p) ==
    IF p.headers.truthy THEN ParseHeaderLines(p.headers.lines, EmptyObject) ELSE EmptyObject

\* (credentials.sseTimeout as number) || 60000
EffectiveTimeout(p) == IF p.credTimeout = 0 THEN 60000 ELSE p.credTimeout

\* the mcpHeaders handed to handleSSERequest
SseHeaders(p) ==
    Assign(Assign(Assign(Assign(CustomHeaders(p),
        "Accept", "text/event-stream"),
        "Cache-Control", "no-cache"),
        "Connection", "keep-alive"),
        "Content-Type", "application/json")

\* requestOptions of handleSSERequest followed by req.end(): the
\* jsonRpcRequest argument is written nowhere
SseRequest(url, jsonRpcRequest, headers, timeoutMs) ==
    [method |-> "GET", url |-> url, headers |-> headers, body |-> Undef,
     timeout |-> timeoutMs]

\* the options of the HTTP transport
HttpRequest(p) ==
    [method |-> "POST", url |-> p.url,
     headers |-> Assign(CustomHeaders(p), "Content-Type", "application/json"),
     body |-> Def(McpEnvelope(p)),
     timeout |-> EffectiveTimeout(p)]

\* the try block of one iteration up to the await of the transport
McpPrepare(p) ==
    IF EnvelopeThrows(p) THEN Throw("Unexpected token in JSON")
    ELSE IF p.connectionType = "sse"
    THEN Ok(SseRequest(p.url, McpEnvelope(p), SseHeaders(p), EffectiveTimeout(p)))
    ELSE Ok(HttpRequest(p))

\* what the promise of handleSSERequest may resolve with: the accumulated
\* messages, none, or the synthetic timeout record
SseResults ==
    { << >>,
      << [result |-> "ok"] >>,
      << [progress |-> "1"], [result |-> "ok"] >>,
      << [error |-> "SSE timeout - no data received"] >> }

SseRejections == {"SSE request error: ECONNRESET", "SSE response error: aborted"}

\* an output that wraps the messages whatever their number
SseJsonAlwaysWraps(data) == [messages |-> data, messageCount |-> Len(data)]

\* json: sseData.length === 1 ? sseData[0] : { messages, messageCount }
SseJson(data) ==
    IF Len(data) = 1 THEN data[1]
    ELSE [messages |-> data, messageCount |-> Len(data)]

(***************************************************************************)
(* ----------------------- the two batch loops --------------------------- *)
(***************************************************************************)
ErrorRecord(msg, idx) == [json |-> [error |-> msg], pairedItem |-> [item |-> idx]]
DataRecord(json, idx) == [json |-> json, pairedItem |-> [item |-> idx]]

\* json: typeof response === 'object' ? response : { data: response }
ApiJson(reply) == IF reply.kind = "object" THEN reply.obj ELSE [data |-> reply.text]

\* what happened to one item: it failed with a message, it got a reply, or
\* (MCP, connectionType neither sse nor http) nothing was done for it
Failed(msg, sent) == [kind |-> "error", message |-> msg, sent |-> sent]
Replied(json) == [kind |-> "ok", json |-> json, sent |-> TRUE]
Skipped == [kind |-> "skipped", sent |-> FALSE]

\* a catch block that rethrows whatever continueOnFail() says
CatchAlwaysThrows(msg, sent) ==
    /\ pc' = "thrown"
    /\ UNCHANGED <<returnData, i>>
    /\ outcomes' = Append(outcomes, Failed(msg, sent))
    /\ request' = Undef

\* the catch block of either loop
Catch(msg, sent) ==
    /\ IF continueOnFail
       THEN /\ returnData' = Append(returnData, ErrorRecord(msg, i))
            /\ i' = i + 1
            /\ pc' = "loop"
       ELSE /\ pc' = "thrown"
            /\ UNCHANGED <<returnData, i>>
    /\ outcomes' = Append(outcomes, Failed(msg, sent))
    /\ request' = Undef

\* a push that puts the record in front of the earlier ones
PushFront(json) ==
    /\ returnData' = <<DataRecord(json, i)>> \o returnData
    /\ i' = i + 1
    /\ pc' = "loop"
    /\ outcomes' = Append(outcomes, Replied(json))
    /\ item' = Undef
    /\ request' = Undef

\* the push after a reply and the step to the next item
Push(json) ==
    /\ returnData' = Append(returnData, DataRecord(json, i))
    /\ i' = i + 1
    /\ pc' = "loop"
    /\ outcomes' = Append(outcomes, Replied(json))
    /\ item' = Undef
    /\ request' = Undef

\* an iteration whose headers object outlives the iteration: the headers
\* of the item before are still in it
ApiItemStartKeepsHeaders(p) ==
    /\ node = "api"
    /\ pc = "loop"
    /\ i < nItems
    /\ LET r == AssembleRequest(p)
       IN IF r.ok
          THEN /\ pc' = "await"
               /\ item' = Def(p)
               /\ request' =
                     Def([r.req EXCEPT !.headers =
                             IF item.defined /\ AssembleRequest(item.val).ok
                             THEN Spread(AssembleRequest(item.val).req.headers, r.req.headers)
                             ELSE r.req.headers])
               /\ UNCHANGED <<returnData, i, outcomes>>
          ELSE /\ Catch(r.error, FALSE)
               /\ item' = Def(p)
    /\ UNCHANGED <<node, continueOnFail, nItems>>
    /\ UNCHANGED notBatch

\* SuperiorApis.execute: from the parameter reads of item i to the await
ApiItemStart(p) ==
    /\ node = "api"
    /\ pc = "loop"
    /\ i < nItems
    /\ LET r == AssembleRequest(p)
       IN IF r.ok
          THEN /\ pc' = "await"
               /\ item' = Def(p)
               /\ request' = Def(r.req)
               /\ UNCHANGED <<returnData, i, outcomes>>
          ELSE /\ Catch(r.error, FALSE)
               /\ item' = Def(p)
    /\ UNCHANGED <<node, continueOnFail, nItems>>
    /\ UNCHANGED notBatch

\* helpers.httpRequest resolves
ApiItemRespond(reply) ==
    /\ node = "api"
    /\ pc = "await"
    /\ Push(ApiJson(reply))
    /\ UNCHANGED <<node, continueOnFail, nItems>>
    /\ UNCHANGED notBatch

\* helpers.httpRequest rejects
ApiItemFail ==
    /\ node = "api"
    /\ pc = "await"
    /\ Catch(RequestFailed, TRUE)
    /\ UNCHANGED item
    /\ UNCHANGED <<node, continueOnFail, nItems>>
    /\ UNCHANGED notBatch

\* SuperiorApisMcp.execute: from the parameter reads of item i to the await
\* of the transport; an item whose connectionType is neither sse nor http
\* leaves the try block with nothing pushed
McpItemStart(p) ==
    /\ node = "mcp"
    /\ pc = "loop"
    /\ i < nItems
    /\ LET r == McpPrepare(p)
       IN IF ~r.ok
          THEN /\ Catch(r.error, FALSE)
               /\ item' = Def(p)
          ELSE IF p.connectionType \in {"sse", "http"}
          THEN /\ pc' = "await"
               /\ item' = Def(p)
               /\ request' = Def(r.req)
               /\ UNCHANGED <<returnData, i, outcomes>>
          ELSE /\ i' = i + 1
               /\ outcomes' = Append(outcomes, Skipped)
               /\ UNCHANGED <<pc, returnData, item, request>>
    /\ UNCHANGED <<node, continueOnFail, nItems>>
    /\ UNCHANGED notBatch

\* the promise of handleSSERequest resolves
McpSseResolve(data) ==
    /\ node = "mcp"
    /\ pc = "await"
    /\ item.val.connectionType = "sse"
    /\ Push(SseJson(data))
    /\ UNCHANGED <<node, continueOnFail, nItems>>
    /\ UNCHANGED notBatch

\* the promise of handleSSERequest rejects
McpSseReject(msg) ==
    /\ node = "mcp"
    /\ pc = "await"
    /\ item.val.connectionType = "sse"
    /\ Catch(msg, TRUE)
    /\ UNCHANGED item
    /\ UNCHANGED <<node, continueOnFail, nItems>>
    /\ UNCHANGED notBatch

\* helpers.httpRequest resolves
McpHttpRespond(reply) ==
    /\ node = "mcp"
    /\ pc = "await"
    /\ item.val.connectionType = "http"
    /\ Push(reply.obj)
    /\ UNCHANGED <<node, continueOnFail, nItems>>
    /\ UNCHANGED notBatch

\* helpers.httpRequest rejects
McpHttpFail ==
    /\ node = "mcp"
    /\ pc = "await"
    /\ item.val.connectionType = "http"
    /\ Catch(RequestFailed, TRUE)
    /\ UNCHANGED item
    /\ UNCHANGED <<node, continueOnFail, nItems>>
    /\ UNCHANGED notBatch

\* a return that is also reached after the catch block has thrown
ReturnAfterThrow ==
    /\ \/ pc = "loop" /\ i = nItems
       \/ pc = "thrown"
    /\ pc' = "returned"
    /\ UNCHANGED <<node, continueOnFail, nItems, i, returnData, item, request, outcomes>>
    /\ UNCHANGED notBatch

\* return [returnData]
Return ==
    /\ pc = "loop"
    /\ i = nItems
    /\ pc' = "returned"
    /\ UNCHANGED <<node, continueOnFail, nItems, i, returnData, item, request, outcomes>>
    /\ UNCHANGED notBatch

NextBatch ==
    \/ \E p \in ItemParams : ApiItemStart(p)
    \/ \E reply \in ApiReplies : ApiItemRespond(reply)
    \/ ApiItemFail
    \/ \E p \in McpItems : McpItemStart(p)
    \/ \E data \in SseResults : McpSseResolve(data)
    \/ \E msg \in SseRejections : McpSseReject(msg)
    \/ \E reply \in ApiReplies : McpHttpRespond(reply)
    \/ McpHttpFail
    \/ Return

(***************************************************************************)
(* ------------- loadOptions and resourceMapping methods ----------------- *)
(* The four methods the editor calls to fill the method list, the scenario *)
(* list and the two resource mappers.  Operation objects of the catalog    *)
(* carry no description and no schema type, so display names have no       *)
(* description suffix and every field is of type string.                   *)
(***************************************************************************)
\* `${method.toUpperCase()} request`
RequestLabel(verb) ==
    CASE verb = "get" -> "GET request" [] verb = "post" -> "POST request"
      [] verb = "put" -> "PUT request" [] OTHER -> "request"

\* `No scenario templates available for ${method.toUpperCase()} method`
NoScenarioLabel(method) ==
    CASE ToUpperCase(method) = "GET" -> "No scenario templates available for GET method"
      [] ToUpperCase(method) = "POST" -> "No scenario templates available for POST method"
      [] ToUpperCase(method) = "PUT" -> "No scenario templates available for PUT method"
      [] OTHER -> "No scenario templates available for method"

SentinelOption == [name |-> "Use Default Request Body", value |-> "no_use_scenario"]

NoScenarioOption(method) == [name |-> NoScenarioLabel(method), value |-> "no_scenario"]

ErrorOption ==
    [name |-> "Failed to load scenario list. Please check network connection.",
     value |-> "error"]

\* pluginData.interface.paths can be read from the decoded selection
Usable(selection) == Decodes(selection) /\ selection.data.interface.defined

\* paths[Object.keys(paths)[0]]
PathMethods(selection) == selection.data.interface.paths[1].methods

\* the body of getMethods
GetMethodsOptions(p) ==
    IF p.apiSelection.kind = "empty" THEN << >>
    ELSE IF ~Usable(p.apiSelection) THEN << >>
    ELSE LET pathMethods == PathMethods(p.apiSelection)
         IN [n \in 1..Len(pathMethods) |->
                [name |-> ToUpperCase(pathMethods[n].verb),
                 value |-> ToUpperCase(pathMethods[n].verb),
                 description |-> IF pathMethods[n].op.summary # ""
                                 THEN pathMethods[n].op.summary
                                 ELSE RequestLabel(pathMethods[n].verb)]]

\* the comparator of fields.sort
CompareRequired(a, b) ==
    IF a.required /\ ~b.required THEN -1
    ELSE IF ~a.required /\ b.required THEN 1
    ELSE 0

\* Array.prototype.sort with that comparator: a stable insertion
\* an insertion that also moves x before the fields it compares equal to
RECURSIVE InsertFieldUnstable(_, _)
InsertFieldUnstable(sorted, x) ==
    IF sorted = << >> THEN <<x>>
    ELSE IF CompareRequired(sorted[Len(sorted)], x) >= 0
         THEN Append(InsertFieldUnstable(SubSeq(sorted, 1, Len(sorted) - 1), x),
                     sorted[Len(sorted)])
         ELSE Append(sorted, x)

RECURSIVE InsertField(_, _)
InsertField(sorted, x) ==
    IF sorted = << >> THEN <<x>>
    ELSE IF CompareRequired(sorted[Len(sorted)], x) > 0
         THEN Append(InsertField(SubSeq(sorted, 1, Len(sorted) - 1), x), sorted[Len(sorted)])
         ELSE Append(sorted, x)

RECURSIVE SortFields(_)
SortFields(fields) ==
    IF fields = << >> THEN << >>
    ELSE InsertField(SortFields(SubSeq(fields, 1, Len(fields) - 1)), fields[Len(fields)])

\* the field pushed for one operation parameter
ParameterField(param) ==
    [id |-> <<param.in, param.name>>,
     displayName |-> [name |-> param.name, star |-> param.required,
                      tag |-> IF param.in = "query" THEN "[Q]" ELSE "[H]"],
     required |-> param.required,
     type |-> "string"]

\* the body of getParametersFields
GetParametersFields(p) ==
    IF p.scenario = "no_use_scenario" /\ p.method # "" /\ p.apiSelection.kind # "empty"
    THEN IF ~Usable(p.apiSelection) THEN << >>
         ELSE LET pathMethods == PathMethods(p.apiSelection)
                  verb == ToLowerCase(p.method)
              IN IF ~HasMethod(pathMethods, verb) THEN << >>
                 ELSE LET parameters == MethodData(pathMethods, verb).parameters
                      IN SortFields([n \in 1..Len(parameters) |->
                                        ParameterField(parameters[n])])
    ELSE << >>

\* content['application/json'], undefined when absent
HasJsonContent(content) == \E n \in 1..Len(content) : content[n].mime = "application/json"
JsonContent(content) ==
    content[CHOOSE n \in 1..Len(content) : content[n].mime = "application/json"]

\* the field pushed for one property of the JSON schema
BodyField(key, required) ==
    [id |-> <<"body", key>>,
     displayName |-> [name |-> key, star |-> key \in required, tag |-> ""],
     required |-> key \in required,
     type |-> "string"]

\* the body of getBodyFields
GetBodyFields(p) ==
    IF p.scenario = "no_use_scenario"
       /\ ToUpperCase(p.method) \in {"POST", "PUT", "PATCH"}
       /\ p.apiSelection.kind # "empty"
    THEN IF ~Usable(p.apiSelection) THEN << >>
         ELSE LET pathMethods == PathMethods(p.apiSelection)
                  verb == ToLowerCase(p.method)
              IN IF ~HasMethod(pathMethods, verb) THEN << >>
                 ELSE IF ~MethodData(pathMethods, verb).hasRequestBody THEN << >>
                 ELSE LET content == MethodData(pathMethods, verb).content
                      IN IF ~HasJsonContent(content) THEN << >>
                         ELSE LET schema == JsonContent(content)
                              IN SortFields([n \in 1..Len(schema.properties) |->
                                     BodyField(schema.properties[n], schema.required)])
    ELSE << >>

\* JSON.stringify(requestContent, null, 4)
PrettyPrint(requestContent) ==
    CASE requestContent = [temp |-> "21"] -> "{\n    \"temp\": \"21\"\n}"
      [] requestContent = [note |-> "hi"] -> "{\n    \"note\": \"hi\"\n}"
      [] OTHER -> "{}"

\* what the async callback of one scenario returns after its detail response
DetailOption(scenario, detail) ==
    IF detail.status = 1 /\ detail.hasContent
    THEN [name |-> scenario.scenario_name, value |-> PrettyPrint(detail.request_content)]
    ELSE [name |-> scenario.scenario_name, value |-> scenario.scenario_id]

\* a failed detail request that yields the error option for its scenario
FallbackOptionError(scenario) == ErrorOption

\* what it returns after its detail request failed
FallbackOption(scenario) ==
    [name |-> scenario.scenario_name, value |-> scenario.scenario_id]

\* a catch block of getScenarioList that returns the error option alone
ScenarioCatchBare == << ErrorOption >>

\* the return of the catch block of getScenarioList
ScenarioCatch == << SentinelOption, ErrorOption >>

\* a no-scenario return that holds the sentinel alone
ScenarioNoneSentinelOnly(method) == << SentinelOption >>

\* the return after a list response that is not a non-empty success
ScenarioNone(method) == << SentinelOption, NoScenarioOption(method) >>

\* [sentinel, ...scenariosWithContent]
ScenarioOptions(settled) ==
    <<SentinelOption>> \o [n \in 1..Len(settled) |-> settled[n].option]

\* the selections of the generated operations: every pattern of required
\* flags over up to MaxFields parameters / properties
FieldSelections ==
    { EncodeSelection(PluginData(PluginFields(flags))) :
        flags \in UNION { [1..k -> BOOLEAN] : k \in 0..MaxFields } }

\* the parameters the editor holds when it calls one of the methods
LoadParams ==
    [apiSelection : Selections \cup FieldSelections,
     method : {"", "GET", "POST", "PUT", "post"},
     scenario : {"", "no_use_scenario", "scenario-1"},
     token : {"t1"}]

Scenario1 == [scenario_id |-> "s1", scenario_name |-> "Sunny"]
Scenario2 == [scenario_id |-> "s2", scenario_name |-> "Rainy"]

\* responses of the scenario_sample_list endpoint; hasList is the
\* truthiness of response.data?.list
ListResponses ==
    { [status |-> 1, hasList |-> TRUE, list |-> <<Scenario1, Scenario2>>],
      [status |-> 1, hasList |-> TRUE, list |-> <<Scenario1>>],
      [status |-> 1, hasList |-> TRUE, list |-> << >>],
      [status |-> 0, hasList |-> TRUE, list |-> <<Scenario1>>],
      [status |-> 1, hasList |-> FALSE, list |-> << >>] }

\* responses of the scenario endpoint; hasContent is the truthiness of
\* scenarioDetailResponse.data?.request_content
DetailResponses ==
    { [status |-> 1, hasContent |-> TRUE, request_content |-> [temp |-> "21"]],
      [status |-> 1, hasContent |-> TRUE, request_content |-> [note |-> "hi"]],
      [status |-> 1, hasContent |-> FALSE, request_content |-> EmptyObject],
      [status |-> 0, hasContent |-> TRUE, request_content |-> [temp |-> "21"]] }

NoParams ==
    [apiSelection |-> EmptySelection, method |-> "", scenario |-> "", token |-> ""]

NoOption == [name |-> "", value |-> ""]

\* the detail GET of a callback that is still in flight
NoDetail ==
    [kind |-> "pending", status |-> 0, hasContent |-> FALSE, request_content |-> EmptyObject]

\* a method returns its list
Returned(list) ==
    /\ loadPc' = "returned"
    /\ returned' = list
    /\ scenariosWithContent' = << >>

\* loadOptions.getMethods
GetMethods(p) ==
    /\ loadPc = "idle"
    /\ loadOp' = "getMethods"
    /\ loadParams' = p
    /\ Returned(GetMethodsOptions(p))
    /\ UNCHANGED listResponse
    /\ UNCHANGED notLoad

\* resourceMapping.getParametersFields
GetParametersFieldsCall(p) ==
    /\ loadPc = "idle"
    /\ loadOp' = "getParametersFields"
    /\ loadParams' = p
    /\ Returned(GetParametersFields(p))
    /\ UNCHANGED listResponse
    /\ UNCHANGED notLoad

\* resourceMapping.getBodyFields
GetBodyFieldsCall(p) ==
    /\ loadPc = "idle"
    /\ loadOp' = "getBodyFields"
    /\ loadParams' = p
    /\ Returned(GetBodyFields(p))
    /\ UNCHANGED listResponse
    /\ UNCHANGED notLoad

\* loadOptions.getScenarioList up to the await of the scenario-list POST
GetScenarioList(p) ==
    /\ loadPc = "idle"
    /\ loadOp' = "getScenarioList"
    /\ loadParams' = p
    /\ IF p.apiSelection.kind = "empty" \/ p.method = "" THEN Returned(<< >>)
       ELSE IF ~Usable(p.apiSelection) THEN Returned(ScenarioCatch)
       ELSE /\ loadPc' = "list"
            /\ UNCHANGED <<returned, scenariosWithContent>>
    /\ UNCHANGED listResponse
    /\ UNCHANGED notLoad

\* a handling of the list response that does not look at its status
ScenarioListRespondIgnoresStatus(response) ==
    /\ loadPc = "list"
    /\ IF response.hasList /\ Len(response.list) > 0
       THEN /\ loadPc' = "details"
            /\ scenariosWithContent' =
                  [n \in 1..Len(response.list) |->
                      [scenario |-> response.list[n], settled |-> FALSE,
                       option |-> NoOption, detail |-> NoDetail]]
            /\ UNCHANGED returned
       ELSE Returned(ScenarioNone(loadParams.method))
    /\ listResponse' = [kind |-> "response", val |-> response]
    /\ UNCHANGED <<loadOp, loadParams>>
    /\ UNCHANGED notLoad

\* the scenario-list POST resolves: either the two-option return, or every
\* detail GET is issued by the map before Promise.all is awaited
ScenarioListRespond(response) ==
    /\ loadPc = "list"
    /\ IF response.status = 1 /\ response.hasList /\ Len(response.list) > 0
       THEN /\ loadPc' = "details"
            /\ scenariosWithContent' =
                  [n \in 1..Len(response.list) |->
                      [scenario |-> response.list[n], settled |-> FALSE,
                       option |-> NoOption, detail |-> NoDetail]]
            /\ UNCHANGED returned
       ELSE Returned(ScenarioNone(loadParams.method))
    /\ listResponse' = [kind |-> "response", val |-> response]
    /\ UNCHANGED <<loadOp, loadParams>>
    /\ UNCHANGED notLoad

\* the scenario-list POST rejects
ScenarioListFail ==
    /\ loadPc = "list"
    /\ Returned(ScenarioCatch)
    /\ listResponse' = [kind |-> "rejected"]
    /\ UNCHANGED <<loadOp, loadParams>>
    /\ UNCHANGED notLoad

\* a Promise.all that hands the list over as soon as one callback settles
SettleDetailFirst(n, option, detail) ==
    LET settled == [scenariosWithContent EXCEPT ![n].settled = TRUE,
                                                ![n].option = option,
                                                ![n].detail = detail]
    IN /\ scenariosWithContent' = settled
       /\ loadPc' = "returned"
       /\ returned' = ScenarioOptions(settled)

\* the callback of scenario n settles with the given option after its GET
\* ended as `detail`; Promise.all resolves with the last one and the list
\* is returned
SettleDetail(n, option, detail) ==
    LET settled == [scenariosWithContent EXCEPT ![n].settled = TRUE,
                                                ![n].option = option,
                                                ![n].detail = detail]
    IN /\ scenariosWithContent' = settled
       /\ IF \A m \in 1..Len(settled) : settled[m].settled
          THEN /\ loadPc' = "returned"
               /\ returned' = ScenarioOptions(settled)
          ELSE UNCHANGED <<loadPc, returned>>

\* the detail GET of scenario n resolves
DetailRespond(n, detail) ==
    /\ loadPc = "details"
    /\ n \in 1..Len(scenariosWithContent)
    /\ ~scenariosWithContent[n].settled
    /\ SettleDetail(n, DetailOption(scenariosWithContent[n].scenario, detail),
                    [kind |-> "response", status |-> detail.status,
                     hasContent |-> detail.hasContent,
                     request_content |-> detail.request_content])
    /\ UNCHANGED <<loadOp, loadParams, listResponse>>
    /\ UNCHANGED notLoad

\* the detail GET of scenario n rejects
DetailFail(n) ==
    /\ loadPc = "details"
    /\ n \in 1..Len(scenariosWithContent)
    /\ ~scenariosWithContent[n].settled
    /\ SettleDetail(n, FallbackOption(scenariosWithContent[n].scenario),
                    [NoDetail EXCEPT !.kind = "rejected"])
    /\ UNCHANGED <<loadOp, loadParams, listResponse>>
    /\ UNCHANGED notLoad

NextLoad ==
    \/ \E p \in LoadParams : GetMethods(p)
    \/ \E p \in LoadParams : GetParametersFieldsCall(p)
    \/ \E p \in LoadParams : GetBodyFieldsCall(p)
    \/ \E p \in LoadParams : GetScenarioList(p)
    \/ \E response \in ListResponses : ScenarioListRespond(response)
    \/ ScenarioListFail
    \/ \E n \in 1..2, detail \in DetailResponses : DetailRespond(n, detail)
    \/ \E n \in 1..2 : DetailFail(n)

(***************************************************************************)
(* ------------------------- descriptor codec ---------------------------- *)
(* getApiList turns pluginData into the option value with JSON.stringify   *)
(* and base64; getMethods, getScenarioList, the resource mappers and        *)
(* execute turn it back with base64 decoding and JSON.parse.  A text is a   *)
(* sequence of character codes (ASCII, which UTF-8 keeps byte for byte); a  *)
(* JSON value is a string, an object (its members in insertion order) or    *)
(* undefined.  Keys are written with one character: i = id,                 *)
(* f = interfaceId, v = version, n = name, x = interface, p = paths.        *)
(* The other components handle selections in decoded form                   *)
(* (EncodeSelection).                                                       *)
(***************************************************************************)
LBRACE == 123
RBRACE == 125
COLON == 58
COMMA == 44
QUOTE == 34
BACKSLASH == 92

JsonString(s) == [t |-> "s", s |-> s, m |-> << >>]
JsonObject(m) == [t |-> "o", s |-> << >>, m |-> m]
JsonUndefined == [t |-> "u", s |-> << >>, m |-> << >>]

\* a string written without escaping its quotes and backslashes
RECURSIVE EscapeNothing(_)
EscapeNothing(s) == IF s = << >> THEN << >> ELSE <<Head(s)>> \o EscapeNothing(Tail(s))

\* the characters of a string between the quotes JSON.stringify writes
RECURSIVE Escape(_)
Escape(s) ==
    IF s = << >> THEN << >>
    ELSE (IF Head(s) \in {QUOTE, BACKSLASH} THEN <<BACKSLASH, Head(s)>> ELSE <<Head(s)>>)
         \o Escape(Tail(s))

\* JSON.stringify of a string, of an object; a member whose value is
\* undefined is left out
RECURSIVE StringifyValue(_)
RECURSIVE StringifyMembers(_, _)
StringifyValue(v) ==
    IF v.t = "s" THEN <<QUOTE>> \o Escape(v.s) \o <<QUOTE>>
    ELSE <<LBRACE>> \o StringifyMembers(v.m, TRUE) \o <<RBRACE>>

StringifyMembers(m, first) ==
    IF m = << >> THEN << >>
    ELSE IF Head(m).v.t = "u" THEN StringifyMembers(Tail(m), first)
    ELSE (IF first THEN << >> ELSE <<COMMA>>)
         \o <<QUOTE>> \o Escape(Head(m).k) \o <<QUOTE, COLON>>
         \o StringifyValue(Head(m).v)
         \o StringifyMembers(Tail(m), FALSE)

\* Buffer.from(text).toString('base64'): three bytes make four sextets, 64
\* stands for the padding character
RECURSIVE ToBase64(_)
ToBase64(bytes) ==
    IF bytes = << >> THEN << >>
    ELSE IF Len(bytes) = 1
    THEN << bytes[1] \div 4, (bytes[1] % 4) * 16, 64, 64 >>
    ELSE IF Len(bytes) = 2
    THEN << bytes[1] \div 4, (bytes[1] % 4) * 16 + bytes[2] \div 16,
            (bytes[2] % 16) * 4, 64 >>
    ELSE << bytes[1] \div 4, (bytes[1] % 4) * 16 + bytes[2] \div 16,
            (bytes[2] % 16) * 4 + bytes[3] \div 64, bytes[3] % 64 >>
         \o ToBase64(SubSeq(bytes, 4, Len(bytes)))

\* Buffer.from(value, 'base64').toString(); trailing characters short of a
\* group of four are dropped
RECURSIVE FromBase64(_)
FromBase64(chars) ==
    IF Len(chars) < 4 THEN << >>
    ELSE (IF chars[3] = 64
          THEN << chars[1] * 4 + chars[2] \div 16 >>
          ELSE IF chars[4] = 64
          THEN << chars[1] * 4 + chars[2] \div 16,
                  (chars[2] % 16) * 16 + chars[3] \div 4 >>
          ELSE << chars[1] * 4 + chars[2] \div 16,
                  (chars[2] % 16) * 16 + chars[3] \div 4,
                  (chars[3] % 4) * 64 + chars[4] >>)
         \o FromBase64(SubSeq(chars, 5, Len(chars)))

ParseError == [ok |-> FALSE, v |-> JsonUndefined, pos |-> 0]

\* the string whose opening quote stands before position pos
RECURSIVE ParseString(_, _, _)
ParseString(text, pos, acc) ==
    IF pos > Len(text) THEN ParseError
    ELSE IF text[pos] = QUOTE THEN [ok |-> TRUE, v |-> JsonString(acc), pos |-> pos + 1]
    ELSE IF text[pos] = BACKSLASH
    THEN IF pos + 1 <= Len(text) /\ text[pos + 1] \in {QUOTE, BACKSLASH}
         THEN ParseString(text, pos + 2, Append(acc, text[pos + 1]))
         ELSE ParseError
    ELSE ParseString(text, pos + 1, Append(acc, text[pos]))

\* the value, the members of an object, at position pos
RECURSIVE ParseValue(_, _)
RECURSIVE ParseMembers(_, _, _)
ParseValue(text, pos) ==
    IF pos > Len(text) THEN ParseError
    ELSE IF text[pos] = QUOTE THEN ParseString(text, pos + 1, << >>)
    ELSE IF text[pos] = LBRACE
    THEN IF pos + 1 <= Len(text) /\ text[pos + 1] = RBRACE
         THEN [ok |-> TRUE, v |-> JsonObject(<< >>), pos |-> pos + 2]
         ELSE ParseMembers(text, pos + 1, << >>)
    ELSE ParseError

ParseMembers(text, pos, acc) ==
    IF pos > Len(text) \/ text[pos] # QUOTE THEN ParseError
    ELSE LET key == ParseString(text, pos + 1, << >>)
         IN IF ~key.ok \/ key.pos > Len(text) \/ text[key.pos] # COLON THEN ParseError
            ELSE LET val == ParseValue(text, key.pos + 1)
                     members == Append(acc, [k |-> key.v.s, v |-> val.v])
                 IN IF ~val.ok \/ val.pos > Len(text) THEN ParseError
                    ELSE IF text[val.pos] = COMMA
                    THEN ParseMembers(text, val.pos + 1, members)
                    ELSE IF text[val.pos] = RBRACE
                    THEN [ok |-> TRUE, v |-> JsonObject(members), pos |-> val.pos + 1]
                    ELSE ParseError

\* JSON.parse: ok is FALSE where it throws
JsonParse(text) ==
    LET r == ParseValue(text, 1)
    IN IF r.ok /\ r.pos = Len(text) + 1 THEN [ok |-> TRUE, v |-> r.v]
       ELSE [ok |-> FALSE, v |-> JsonUndefined]

\* the pluginData objects getApiList may build: id, name and interface are
\* undefined when the catalog plugin lacks them; interfaceId and version
\* are always strings
Descriptors ==
    { JsonObject(<< [k |-> <<105>>, v |-> id], [k |-> <<102>>, v |-> interfaceId],
                    [k |-> <<118>>, v |-> version], [k |-> <<110>>, v |-> name],
                    [k |-> <<120>>, v |-> interface] >>) :
        id \in {JsonString(<<97>>), JsonString(<<QUOTE, 97>>), JsonUndefined},
        interfaceId \in {JsonString(<< >>), JsonString(<<51, 98>>)},
        version \in {JsonString(<< >>), JsonString(<<49, BACKSLASH>>)},
        name \in {JsonString(<<87, 32, 120>>), JsonUndefined},
        interface \in {JsonObject(<< [k |-> <<112>>, v |-> JsonObject(<< >>)] >>),
                       JsonObject(<< [k |-> <<112>>,
                                      v |-> JsonObject(<< [k |-> <<47, 119>>,
                                                           v |-> JsonString(<<103>>)] >>)],
                                     [k |-> <<118>>, v |-> JsonString(<<50>>)] >>),
                       JsonUndefined} }

\* getApiList builds pluginData for a plugin of the catalog
BuildPluginData(d) ==
    /\ codecPc = "idle"
    /\ pluginData' = d
    /\ codecPc' = "built"
    /\ UNCHANGED <<encodedData, decoded>>
    /\ UNCHANGED notCodec

\* Buffer.from(JSON.stringify(pluginData)).toString('base64')
EncodePluginData ==
    /\ codecPc = "built"
    /\ encodedData' = ToBase64(StringifyValue(pluginData))
    /\ codecPc' = "encoded"
    /\ UNCHANGED <<pluginData, decoded>>
    /\ UNCHANGED notCodec

\* JSON.parse(Buffer.from(apiSelection, 'base64').toString())
DecodeSelection ==
    /\ codecPc = "encoded"
    /\ decoded' = JsonParse(FromBase64(encodedData))
    /\ codecPc' = "decoded"
    /\ UNCHANGED <<pluginData, encodedData>>
    /\ UNCHANGED notCodec

NextCodec ==
    \/ \E d \in Descriptors : BuildPluginData(d)
    \/ EncodePluginData
    \/ DecodeSelection

(***************************************************************************)
(* ---------------------------- specifications --------------------------- *)
(***************************************************************************)
IdleSSE ==
    /\ conn = "none"
    /\ buffer = <<>>
    /\ sseData = <<>>
    /\ isResolved = FALSE
    /\ timeoutId = "unset"
    /\ deadline = 0
    /\ timeout = 1
    /\ clock = 0
    /\ promise = Pending
    /\ settledBy = "none"
    /\ stream = <<>>
    /\ rawBytes = <<>>
    /\ nChunks = 0

IdleBatch ==
    /\ node = "none"
    /\ continueOnFail = FALSE
    /\ nItems = 0
    /\ i = 0
    /\ pc = "idle"
    /\ returnData = << >>
    /\ item = Undef
    /\ request = Undef
    /\ outcomes = << >>

IdleLoad ==
    /\ loadOp = "none"
    /\ loadParams = NoParams
    /\ loadPc = "none"
    /\ scenariosWithContent = << >>
    /\ returned = << >>
    /\ listResponse = [kind |-> "none"]

IdleCodec ==
    /\ pluginData = JsonUndefined
    /\ encodedData = << >>
    /\ decoded = [ok |-> FALSE, v |-> JsonUndefined]
    /\ codecPc = "none"

IdleCache ==
    /\ staticList = [k \in CacheKeys |-> Undefined]
    /\ staticTime = [k \in CacheKeys |-> UndefinedTime]
    /\ lookups = [l \in Lookups |-> IdleLookup]
    /\ calls = [k \in CacheKeys |-> << >>]
    /\ last = NoLast
    /\ now = TickMs

InitSSE ==
    /\ IdleCache
    /\ IdleCodec
    /\ IdleBatch
    /\ IdleLoad
    /\ conn = "sent"
    /\ buffer = <<>>
    /\ sseData = <<>>
    /\ isResolved = FALSE
    /\ timeoutId = "unset"
    /\ deadline = 0
    /\ timeout \in Timeouts
    /\ clock = 0
    /\ promise = Pending
    /\ settledBy = "none"
    /\ stream = <<>>
    /\ rawBytes = <<>>
    /\ nChunks = 0

InitCache == IdleCache /\ IdleSSE /\ IdleBatch /\ IdleLoad /\ IdleCodec

\* the state at entry of execute: the node, the caller's continue-on-fail
\* setting and the number of input items are fixed for the run
InitBatch ==
    /\ IdleSSE
    /\ IdleCodec
    /\ IdleCache
    /\ IdleLoad
    /\ node \in {"api", "mcp"}
    /\ continueOnFail \in BOOLEAN
    /\ nItems \in 0..MaxItems
    /\ i = 0
    /\ pc = "loop"
    /\ returnData = << >>
    /\ item = Undef
    /\ request = Undef
    /\ outcomes = << >>

SpecSSE == InitSSE /\ [][NextSSE]_vars

SpecCache == InitCache /\ [][NextCache]_vars

SpecBatch == InitBatch /\ [][NextBatch]_vars

\* the editor is about to call one of the methods
InitLoad ==
    /\ IdleSSE
    /\ IdleCodec
    /\ IdleCache
    /\ IdleBatch
    /\ loadOp = "none"
    /\ loadParams = NoParams
    /\ loadPc = "idle"
    /\ scenariosWithContent = << >>
    /\ returned = << >>
    /\ listResponse = [kind |-> "none"]

SpecLoad == InitLoad /\ [][NextLoad]_vars

\* getApiList is about to build the option of one plugin
InitCodec ==
    /\ IdleSSE
    /\ IdleCache
    /\ IdleBatch
    /\ IdleLoad
    /\ pluginData = JsonUndefined
    /\ encodedData = << >>
    /\ decoded = [ok |-> FALSE, v |-> JsonUndefined]
    /\ codecPc = "idle"

SpecCodec == InitCodec /\ [][NextCodec]_vars

(***************************************************************************)
(* ----------------------- claims on the SSE client ---------------------- *)
(***************************************************************************)
\* C1: whatever the server does, the promise of handleSSERequest is settled
\* at the latest when the configured timeout has elapsed since the request
\* was issued (the clock starts at req.end()).
C1_SettledWithinTimeout == promise.state = "pending" => clock <= timeout

\* position pos of text s starts a `data: ` line whose trimmed payload is a
\* JSON-RPC response (result or error key) and whose event is already
\* terminated by a blank line
CompleteResponseLineAt(s, pos) ==
    /\ s[pos] = "D"
    /\ (pos = 1 \/ s[pos - 1] = "NL")
    /\ \E e \in (pos + 1)..Len(s) :
          /\ s[e] = "NL"
          /\ \A k \in pos..(e - 1) : s[k] # "NL"
          /\ Trim(SubSeq(s, pos + 1, e - 1)) \in {<<"R">>, <<"E">>}
          /\ \E j \in e..(Len(s) - 1) : s[j] = "NL" /\ s[j + 1] = "NL"

\* the messages of the data lines of a text, in order, up to and including
\* the first JSON-RPC response
RECURSIVE MessagesUpToResponse(_)
MessagesUpToResponse(lines) ==
    IF lines = <<>> THEN <<>>
    ELSE LET line == Head(lines) IN
         IF line # <<>> /\ Head(line) = "D" /\ JsonOk(Trim(Tail(line)))
         THEN IF JsonVal(Trim(Tail(line))) \in {"R", "E"}
              THEN <<JsonVal(Trim(Tail(line)))>>
              ELSE <<JsonVal(Trim(Tail(line)))>> \o MessagesUpToResponse(Tail(lines))
         ELSE MessagesUpToResponse(Tail(lines))

\* C7: once the delivered text holds a complete event with a result/error
\* payload the promise is settled and the connection closed at once; when
\* that payload settled it, the value is the messages up to and including
\* the payload, nothing after it, and the timer has not fired.
C7_ResponseResolvesAtOnce ==
    /\ (\E pos \in 1..Len(stream) : CompleteResponseLineAt(stream, pos)) =>
          /\ promise.state = "resolved"
          /\ settledBy \in {"terminal", "done"}
          /\ conn \notin {"sent", "open"}
    /\ settledBy = "terminal" =>
          /\ promise.state = "resolved"
          /\ PromiseValue = MessagesUpToResponse(SplitNL(stream, <<>>))
          /\ IsRpcResponse(PromiseValue[Len(PromiseValue)])
          /\ timeoutId = "cleared"

\* C7 witness: a response arrives after one message and ahead of another
\* event of the same chunk, well before the timer is due
C7_Witness ==
    /\ settledBy = "terminal"
    /\ promise.state = "resolved"
    /\ stream = <<"D", "J2", "NL", "NL", "D", "E", "NL", "NL", "D", "J1", "NL", "NL">>
    /\ PromiseValue = <<"J2", "E">>
    /\ clock < deadline
    /\ conn = "destroyed"

(***************************************************************************)
(* -------------------- claims on the Descriptor Cache ------------------- *)
(***************************************************************************)
\* the j-th lookup of key k came once every earlier lookup of k had returned
Successive(k, j) == calls[k][j].priorDone

\* C4 (as stated): of two successive lookups less than 5 minutes apart, the
\* first being the first ever for its key, exactly the first issues the
\* catalog POST, whatever the upstream does.
C4_TwoLookupsOnePost ==
    \A k \in CacheKeys :
        (/\ Len(calls[k]) >= 2
         /\ Successive(k, 2)
         /\ calls[k][2].at - calls[k][1].at < CACHE_DURATION)
        => (calls[k][1].posted /\ ~calls[k][2].posted)

\* C4 (amended): starting without an entry for the key, when the first
\* lookup's POST succeeded with a non-empty response, a successive lookup
\* less than 5 minutes after the first issues no POST and is served from
\* the store, and the next successive lookup made 5 minutes or more after
\* the first issues the second POST; when the first POST failed or brought
\* an empty response, the successive second lookup issues its own POST.
C4_OnePostPerWindow ==
    \A k \in CacheKeys :
        /\ (/\ Len(calls[k]) >= 2
            /\ Successive(k, 2)
            /\ calls[k][1].outcome = "stored"
            /\ calls[k][2].at - calls[k][1].at < CACHE_DURATION)
           => (/\ calls[k][1].posted
               /\ ~calls[k][2].posted
               /\ calls[k][2].outcome = "hit")
        /\ \A j \in 2..Len(calls[k]) :
              (/\ Successive(k, j)
               /\ calls[k][1].outcome = "stored"
               /\ \A m \in 2..(j - 1) : calls[k][m].outcome = "hit"
               /\ calls[k][j].at - calls[k][1].at >= CACHE_DURATION)
              => calls[k][j].posted
        /\ (/\ Len(calls[k]) >= 2
            /\ Successive(k, 2)
            /\ calls[k][1].outcome \in {"failed", "storedEmpty"})
           => calls[k][2].posted

\* C4 witness: three lookups of one key: a POST, a hit inside the window,
\* a second POST once the window has elapsed
C4_Witness ==
    \E k \in CacheKeys :
        /\ Len(calls[k]) = 3
        /\ calls[k][1].posted /\ calls[k][1].outcome = "stored"
        /\ calls[k][2].at > calls[k][1].at
        /\ calls[k][2].at - calls[k][1].at < CACHE_DURATION
        /\ ~calls[k][2].posted
        /\ calls[k][3].at - calls[k][1].at >= CACHE_DURATION
        /\ calls[k][3].posted

\* C5: no two lookups of the same key are at the same time between their
\* cache-miss check and their store.
C5_NoOverlapOnKey ==
    \A l1, l2 \in Lookups :
        (/\ l1 # l2
         /\ lookups[l1].pc = "awaiting"
         /\ lookups[l2].pc = "awaiting")
        => CacheKey(lookups[l1].token) # CacheKey(lookups[l2].token)

(***************************************************************************)
(* ---------------- claims on the two execute functions ------------------ *)
(***************************************************************************)
\* the object made of the body_* fields of a resource mapping
RECURSIVE BodyOfFields(_, _)
BodyOfFields(rows, acc) ==
    IF rows = << >> THEN acc
    ELSE IF Head(rows).key[1] = "body"
         THEN BodyOfFields(Tail(rows), Assign(acc, Head(rows).key[2], Head(rows).value))
         ELSE BodyOfFields(Tail(rows), acc)

\* C2: when the scenario of the item is no_use_scenario, the body of the
\* outbound request is the object of the mapped body_* fields (no body
\* when none is mapped), whatever the Body JSON text holds.
C2_BodyOnlyFromBodyFields ==
    (node = "api" /\ pc = "await" /\ item.val.scenario = "no_use_scenario") =>
        IF item.val.bodyFields.hasValue
        THEN request.val.body = Def(BodyOfFields(item.val.bodyFields.value, EmptyObject))
        ELSE ~request.val.body.defined

\* C3: the token header of every outbound request of SuperiorApis.execute
\* equals the token parameter of its item, whatever the credential headers,
\* the user headers and the mapped header_* fields hold.
C3_TokenProtected ==
    (node = "api" /\ pc = "await") =>
        /\ "token" \in DOMAIN request.val.headers
        /\ request.val.headers["token"] = item.val.token

\* a request is out for an item whose credential headers, user headers and
\* mapped fields all carry a token key, and other keys of theirs went through
C3_Witness ==
    /\ node = "api"
    /\ pc = "await"
    /\ item.val.credHeaders.kind = "object"
    /\ "token" \in DOMAIN item.val.credHeaders.val
    /\ item.val.sendHeaders
    /\ item.val.specifyHeaders = "json"
    /\ "token" \in DOMAIN item.val.headersJson.val
    /\ item.val.parametersFields.hasValue
    /\ item.val.parametersFields.value[1].key = <<"header", "token">>
    /\ request.val.headers["token"] = "t1"
    /\ request.val.headers["Accept"] = "mapped"

\* C6: the request out for an MCP item carries the JSON-RPC envelope of
\* that item, on the HTTP transport and on the SSE transport.
C6_EnvelopeTransmitted ==
    (node = "mcp" /\ pc = "await") =>
        request.val.body = Def(McpEnvelope(item.val))

\* the records a batch owes for what happened to its items, item by item:
\* one error record for a failed item, one data record for a replied one
RECURSIVE ExpectedRecords(_, _)
ExpectedRecords(outs, idx) ==
    IF outs = << >> THEN << >>
    ELSE LET rest == ExpectedRecords(Tail(outs), idx + 1)
             o == Head(outs)
         IN IF o.kind = "error" THEN <<ErrorRecord(o.message, idx)>> \o rest
            ELSE IF o.kind = "ok" THEN <<DataRecord(o.json, idx)>> \o rest
            ELSE rest

\* C8: with continueOnFail on, in either execute function, the loop never
\* throws, every failed item leaves exactly one {error: message} record
\* paired to its index, the loop goes on to the next item, and the record
\* of every other item is the one its own reply calls for.
C8_PerItemIsolation ==
    (continueOnFail /\ node \in {"api", "mcp"}) =>
        /\ pc # "thrown"
        /\ returnData = ExpectedRecords(outcomes, 0)
        /\ Len(outcomes) = i
        /\ pc = "returned" => i = nItems

\* a batch of two returned after its first item failed at the outbound call
\* and its second item was answered
C8_Witness ==
    /\ continueOnFail
    /\ pc = "returned"
    /\ nItems = 2
    /\ outcomes[1].kind = "error"
    /\ outcomes[1].sent
    /\ outcomes[2].kind = "ok"
    /\ returnData = << ErrorRecord(RequestFailed, 0), DataRecord(outcomes[2].json, 1) >>

(***************************************************************************)
(* ------------------- claims on the editor call-backs ------------------- *)
(***************************************************************************)
\* C9: called with a selection that is not base64 of JSON, or that decodes
\* to an object without the interface structure, each of getMethods,
\* getScenarioList, getParametersFields and getBodyFields returns an empty
\* list.
C9_DecodeFailureReturnsEmpty ==
    (loadPc = "returned" /\ ~Usable(loadParams.apiSelection)) => returned = << >>

\* C10 as stated: every list getScenarioList returns begins with the
\* no_use_scenario sentinel, whatever the inputs.
C10_SentinelFirstAlways ==
    (loadOp = "getScenarioList" /\ loadPc = "returned") =>
        Len(returned) >= 1 /\ returned[1] = SentinelOption

\* C10: the list getScenarioList returns is empty when the API selection or
\* the method is empty, and begins with the no_use_scenario sentinel in
\* every other case, whatever the selection decodes to and whatever the
\* scenario-list call and the detail calls did.
C10_SentinelFirstUnlessEarlyReturn ==
    (loadOp = "getScenarioList" /\ loadPc = "returned") =>
        IF loadParams.apiSelection.kind = "empty" \/ loadParams.method = ""
        THEN returned = << >>
        ELSE Len(returned) >= 1 /\ returned[1] = SentinelOption

\* getScenarioList returned after a non-empty scenario list whose first
\* detail request failed and whose second brought a request_content
C10_Witness ==
    /\ loadOp = "getScenarioList"
    /\ loadPc = "returned"
    /\ loadParams.apiSelection = WeatherSelection
    /\ loadParams.method = "POST"
    /\ returned = << SentinelOption,
                     [name |-> "Sunny", value |-> "s1"],
                     [name |-> "Rainy", value |-> PrettyPrint([temp |-> "21"])] >>

\* C11: when getScenarioList returns after a non-empty scenario list, the
\* option of every scenario depends on its own detail fetch alone: the
\* pretty-printed request_content after a successful response that has one,
\* the raw scenario_id after a rejected or content-less one; the list is
\* the sentinel followed by one option per scenario, in list order.
C11_DetailFailureIsolated ==
    (loadOp = "getScenarioList" /\ loadPc = "returned"
        /\ listResponse.kind = "response" /\ listResponse.val.status = 1
        /\ listResponse.val.hasList /\ Len(listResponse.val.list) > 0) =>
        /\ Len(returned) = Len(listResponse.val.list) + 1
        /\ returned[1] = SentinelOption
        /\ Len(scenariosWithContent) = Len(listResponse.val.list)
        /\ \A n \in 1..Len(listResponse.val.list) :
              LET scenario == listResponse.val.list[n]
                  detail == scenariosWithContent[n].detail
              IN /\ returned[n + 1].name = scenario.scenario_name
                 /\ returned[n + 1].value =
                       IF detail.kind = "response" /\ detail.status = 1 /\ detail.hasContent
                       THEN PrettyPrint(detail.request_content)
                       ELSE scenario.scenario_id

\* two scenarios were listed, the detail GET of the first was rejected, the
\* second brought a request_content: raw id for the first, pretty-printed
\* content for the second
C11_Witness ==
    /\ loadOp = "getScenarioList"
    /\ loadPc = "returned"
    /\ Len(scenariosWithContent) = 2
    /\ scenariosWithContent[1].detail.kind = "rejected"
    /\ scenariosWithContent[2].detail.kind = "response"
    /\ scenariosWithContent[2].detail.hasContent
    /\ scenariosWithContent[2].detail.status = 1
    /\ returned[2].value = "s1"
    /\ returned[3].value = PrettyPrint(scenariosWithContent[2].detail.request_content)

\* C12: while getScenarioList waits for Promise.all, the detail GET of
\* every listed scenario has been issued (each is in flight or settled, at
\* least one in flight) and nothing has been returned; when it returns
\* after a non-empty list every callback has settled and the list holds
\* one option per scenario after the sentinel.
C12_JoinAll ==
    /\ loadPc = "details" =>
          /\ listResponse.kind = "response"
          /\ Len(scenariosWithContent) = Len(listResponse.val.list)
          /\ \A n \in 1..Len(scenariosWithContent) :
                scenariosWithContent[n].settled <=>
                    scenariosWithContent[n].detail.kind # "pending"
          /\ \E n \in 1..Len(scenariosWithContent) : ~scenariosWithContent[n].settled
          /\ returned = << >>
    /\ (loadOp = "getScenarioList" /\ loadPc = "returned"
          /\ scenariosWithContent # << >>) =>
          /\ \A n \in 1..Len(scenariosWithContent) : scenariosWithContent[n].settled
          /\ Len(returned) = Len(scenariosWithContent) + 1

\* two detail GETs are out, the second has settled before the first, and
\* getScenarioList has not returned
C12_Witness ==
    /\ loadPc = "details"
    /\ Len(scenariosWithContent) = 2
    /\ ~scenariosWithContent[1].settled
    /\ scenariosWithContent[2].settled
    /\ returned = << >>

(***************************************************************************)
(* ----------------------- claims on getApiList -------------------------- *)
(***************************************************************************)
\* C13: every getApiList call ends in a return; the call whose catalog POST
\* failed returned the empty list, and so did the call whose catalog
\* response (fetched or served from the store) is falsy or has no plugins
\* array.
C13_CatalogBestEffort ==
    /\ last.outcome \in {"none", "notoken", "hit", "stored", "storedEmpty", "failed"}
    /\ last.outcome = "failed" => last.result = << >>
    /\ last.outcome \in {"hit", "stored", "storedEmpty"} =>
          LET response == staticList[CacheKey(last.token)].val
          IN (~response.truthy \/ ~response.hasPlugins) => last.result = << >>

\* a lookup whose POST failed returned the empty list although an earlier
\* fetch of the same key had stored a catalog
C13_Witness ==
    /\ last.outcome = "failed"
    /\ last.posted
    /\ last.result = << >>
    /\ staticList[CacheKey(last.token)].defined
    /\ staticList[CacheKey(last.token)].val.hasPlugins

(***************************************************************************)
(* ------------------- claims on the resource mappers -------------------- *)
(***************************************************************************)
\* the field ids of the schema of the operation the returned fields were
\* derived from, in schema order
SchemaIds ==
    LET op == MethodData(PathMethods(loadParams.apiSelection), ToLowerCase(loadParams.method))
    IN IF loadOp = "getParametersFields"
       THEN [n \in 1..Len(op.parameters) |-> <<op.parameters[n].in, op.parameters[n].name>>]
       ELSE LET schema == JsonContent(op.content)
            IN [n \in 1..Len(schema.properties) |-> <<"body", schema.properties[n]>>]

\* where a field id stands in the schema
SchemaIndex(id) == CHOOSE n \in 1..Len(SchemaIds) : SchemaIds[n] = id

\* C14: the fields getParametersFields and getBodyFields return are the
\* fields of the schema, one each, every required field before every
\* non-required one, and two fields with the same required flag in their
\* schema order.
C14_RequiredFirstStable ==
    (loadPc = "returned" /\ loadOp \in {"getParametersFields", "getBodyFields"}
        /\ returned # << >>) =>
        /\ Len(returned) = Len(SchemaIds)
        /\ \A n \in 1..Len(SchemaIds) : \E m \in 1..Len(returned) : returned[m].id = SchemaIds[n]
        /\ \A m1, m2 \in 1..Len(returned) :
              m1 < m2 =>
                 /\ ~(~returned[m1].required /\ returned[m2].required)
                 /\ returned[m1].required = returned[m2].required =>
                       SchemaIndex(returned[m1].id) < SchemaIndex(returned[m2].id)

\* three parameters, only the middle one required: it comes first and the
\* two others keep their schema order
C14_Witness ==
    /\ loadPc = "returned"
    /\ loadOp = "getParametersFields"
    /\ Len(returned) = 3
    /\ SchemaIds = << <<"query", "a">>, <<"header", "b">>, <<"query", "c">> >>
    /\ returned[1].id = <<"header", "b">> /\ returned[1].required
    /\ returned[2].id = <<"query", "a">> /\ ~returned[2].required
    /\ returned[3].id = <<"query", "c">> /\ ~returned[3].required

(***************************************************************************)
(* -------------------- claims on the descriptor codec ------------------- *)
(***************************************************************************)
\* no undefined value anywhere in the JSON value
RECURSIVE Serializable(_)
Serializable(v) ==
    /\ v.t # "u"
    /\ \A n \in 1..Len(v.m) : Serializable(v.m[n].v)

\* C15: decoding the option value getApiList made of a descriptor whose
\* fields are all JSON-serializable succeeds and yields that descriptor.
C15_CodecRoundTrip ==
    (codecPc = "decoded" /\ Serializable(pluginData)) =>
        decoded = [ok |-> TRUE, v |-> pluginData]

\* a descriptor with a quote in its id, a backslash in its version and a
\* nested interface went through the codec and came back
C15_Witness ==
    /\ codecPc = "decoded"
    /\ Serializable(pluginData)
    /\ pluginData.m[1].v.s = <<QUOTE, 97>>
    /\ pluginData.m[3].v.s = <<49, BACKSLASH>>
    /\ Len(pluginData.m[5].v.m) = 2
    /\ decoded.ok
    /\ decoded.v = pluginData

(***************************************************************************)
(* ------------------ claims on the request assembler -------------------- *)
(***************************************************************************)
\* the headers of an item once the credential headers, the user headers
\* and the mapped header_ fields are merged over the token seed
SuppliedHeaders(p) ==
    LET h1 == IF p.credHeaders.kind = "empty" THEN [token |-> p.token]
              ELSE CredentialHeaders([token |-> p.token], p.credHeaders.val)
        h2 == IF ~p.sendHeaders THEN h1
              ELSE IF p.specifyHeaders = "keypair"
                   THEN IF p.headers.hasParameter
                        THEN UserHeaders(h1, ReduceRows(p.headers.parameter, EmptyObject))
                        ELSE h1
                   ELSE UserHeaders(h1, p.headersJson.val)
    IN IF p.parametersFields.hasValue
       THEN ApplyMapped(p.parametersFields.value, EmptyObject, h2).headers
       ELSE h2

\* C16: the headers of an outbound request are the supplied headers plus a
\* Content-Type equal to the first declared content type when the method
\* is POST, PUT or PATCH, the operation declares requestBody content and no
\* source supplied a Content-Type key; in every other case they are the
\* supplied headers, unchanged; and the inference makes no item fail.
C16_ContentTypeExactly ==
    /\ (node = "api" /\ pc # "await" /\ item.defined) =>
        outcomes[Len(outcomes)].message #
            "Cannot read properties of undefined (reading 'includes')"
    /\ (node = "api" /\ pc = "await") =>
        LET supplied == SuppliedHeaders(item.val)
            pathMethods == item.val.apiSelection.data.interface.paths[1].methods
            verb == ToLowerCase(request.val.method)
        IN IF /\ request.val.method \in {"POST", "PUT", "PATCH"}
              /\ HasMethod(pathMethods, verb)
              /\ MethodData(pathMethods, verb).hasRequestBody
              /\ "Content-Type" \notin DOMAIN supplied
           THEN request.val.headers =
                    Assign(supplied, "Content-Type",
                           MethodData(pathMethods, verb).content[1].mime)
           ELSE request.val.headers = supplied

\* C17: for an item with a token, method GET (chosen, or resolved from the
\* first declared verb), no scenario, one query row k = v and no mapped
\* field, the one request of the iteration is GET base_uri + first path
\* with query {k: v}, the header token of the item and no body.
C17_GetAssembly ==
    (/\ node = "api"
     /\ pc = "await"
     /\ request.val.method = "GET"
     /\ item.val.scenario = ""
     /\ item.val.sendQuery
     /\ item.val.specifyQuery = "keypair"
     /\ Len(item.val.queryParameters.parameter) = 1
     /\ ~item.val.parametersFields.hasValue) =>
        /\ request.val.url =
               <<item.val.baseUri, item.val.apiSelection.data.interface.paths[1].path>>
        /\ request.val.qs =
               Assign(EmptyObject, item.val.queryParameters.parameter[1].name,
                      item.val.queryParameters.parameter[1].value)
        /\ "token" \in DOMAIN request.val.headers
        /\ request.val.headers["token"] = item.val.token
        /\ ~request.val.body.defined
        /\ Len(outcomes) = i

\* GET http://localhost:8080/upload?q=a%20b with token t2 is out
C17_Witness ==
    /\ node = "api"
    /\ pc = "await"
    /\ item.val.method = "GET"
    /\ item.val.token = "t2"
    /\ item.val.scenario = ""
    /\ request.val = [method |-> "GET",
                      url |-> <<"http://localhost:8080", "/upload">>,
                      qs |-> [q |-> "a b"],
                      headers |-> [token |-> "t2"],
                      body |-> Undef]

(***************************************************************************)
(* ------------------- claims on the empty scenario list ----------------- *)
(***************************************************************************)
\* C18: after a scenario-list response with status 1 and an empty
\* data.list, getScenarioList has returned, without any detail GET, the
\* sentinel option followed by the no_scenario option that names the method
\* in upper case.
C18_EmptyScenarioList ==
    (/\ listResponse.kind = "response"
     /\ listResponse.val.status = 1
     /\ listResponse.val.hasList
     /\ listResponse.val.list = << >>) =>
        /\ loadPc = "returned"
        /\ scenariosWithContent = << >>
        /\ returned =
             << [name |-> "Use Default Request Body", value |-> "no_use_scenario"],
                [name |-> CASE loadParams.method = "GET" ->
                                   "No scenario templates available for GET method"
                            [] loadParams.method \in {"POST", "post"} ->
                                   "No scenario templates available for POST method"
                            [] loadParams.method = "PUT" ->
                                   "No scenario templates available for PUT method",
                 value |-> "no_scenario"] >>

\* the list came back empty for method `post` and the two options were
\* returned
C18_Witness ==
    /\ loadOp = "getScenarioList"
    /\ loadPc = "returned"
    /\ loadParams.method = "post"
    /\ listResponse = [kind |-> "response",
                       val |-> [status |-> 1, hasList |-> TRUE, list |-> << >>]]
    /\ Len(returned) = 2
    /\ returned[2].name = "No scenario templates available for POST method"

(***************************************************************************)
(* ----------------------- claims on failing items ----------------------- *)
(***************************************************************************)
\* the token is empty, the selection is empty or does not decode, or a JSON
\* text the item has execute parse (headers, query, body of the scenario)
\* is malformed
InvalidItem(p) ==
    \/ p.token = ""
    \/ p.apiSelection.kind = "empty"
    \/ ~(p.apiSelection.kind = "base64" /\ p.apiSelection.json)
    \/ p.sendHeaders /\ p.specifyHeaders = "json" /\ p.headersJson.kind = "malformed"
    \/ p.sendQuery /\ p.specifyQuery = "json" /\ p.queryParametersJson.kind = "malformed"
    \/ p.scenario \notin {"", "no_scenario", "error"} /\ p.bodyJson.kind = "malformed"

\* C19: an item of SuperiorApis.execute with an empty token, an empty or
\* undecodable selection, or malformed header, query or scenario-body JSON
\* never has a request out; its iteration ends in the catch block with no
\* request sent: an {error} record paired to its index when continueOnFail
\* is on, the throw otherwise.
C19_FailLoudBeforeSending ==
    (node = "api" /\ item.defined /\ InvalidItem(item.val)) =>
        /\ pc # "await"
        /\ ~request.defined
        /\ outcomes # << >>
        /\ outcomes[Len(outcomes)].kind = "error"
        /\ ~outcomes[Len(outcomes)].sent
        /\ IF continueOnFail
           THEN /\ pc \in {"loop", "returned"}
                /\ i = Len(outcomes)
                /\ Len(returnData) >= 1
                /\ returnData[Len(returnData)] =
                       [json |-> [error |-> outcomes[Len(outcomes)].message],
                        pairedItem |-> [item |-> Len(outcomes) - 1]]
           ELSE /\ pc = "thrown"
                /\ i = Len(outcomes) - 1

\* the second item carried a scenario and a malformed body JSON: the loop
\* went on with an error record for it and nothing was sent
C19_Witness ==
    /\ node = "api"
    /\ continueOnFail
    /\ pc = "loop"
    /\ i = 2
    /\ item.defined
    /\ item.val.scenario = "scenario-1"
    /\ item.val.bodyJson.kind = "malformed"
    /\ ~outcomes[2].sent
    /\ returnData[Len(returnData)] = ErrorRecord("Failed to parse body JSON", 1)

(***************************************************************************)
(* ------------------- claims on the SSE promise ------------------------- *)
(***************************************************************************)
\* C20: once the promise of handleSSERequest is settled, no step changes
\* its state, the handler that settled it, or its value (the message array
\* included, when the promise was resolved with sseData itself).
C20_SettledOnce ==
    [][promise.state # "pending" =>
          /\ promise' = promise
          /\ settledBy' = settledBy
          /\ PromiseValue' = PromiseValue]_vars

\* the timer resolved the promise with the collected messages while a
\* data line sat unfinished in the buffer; the end event came afterwards
\* and left the messages as they were
C20_Witness ==
    /\ promise = ResolvedWithSseData
    /\ settledBy = "timeout"
    /\ conn = "ended"
    /\ Len(sseData) > 0
    /\ Trim(buffer) # <<>>
    /\ FlushLines(SplitNL(buffer, <<>>), sseData) # sseData

(***************************************************************************)
(* ---------------------- claims on the item loop ------------------------ *)
(***************************************************************************)
\* C21: in either execute function a request is out only while the loop
\* awaits it, and then every earlier item has already ended (replied,
\* failed or skipped) and none of the later ones has started; the records
\* of returnData are paired to strictly increasing item indexes.
C21_Sequential ==
    /\ request.defined <=> pc = "await"
    /\ pc = "await" =>
          /\ item.defined
          /\ i < nItems
          /\ Len(outcomes) = i
    /\ Len(outcomes) <= nItems
    /\ \A a, b \in 1..Len(returnData) :
          a < b => returnData[a].pairedItem.item < returnData[b].pairedItem.item

\* the call of the second item is out after the call of the first one was
\* answered and its record pushed
C21_Witness ==
    /\ pc = "await"
    /\ i = 1
    /\ request.defined
    /\ Len(outcomes) = 1
    /\ outcomes[1].kind = "ok"
    /\ Len(returnData) = 1
    /\ returnData[1].pairedItem.item = 0

\* C22: with continueOnFail off, in either execute function, once an item
\* has failed the call has thrown and never returns: the failed item is
\* the last one the loop touched, every item before it had succeeded (or
\* was skipped), no request is out and the index stays on the failed item.
C22_AbortOnFirstFailure ==
    (~continueOnFail /\ \E n \in 1..Len(outcomes) : outcomes[n].kind = "error") =>
        /\ pc = "thrown"
        /\ outcomes[Len(outcomes)].kind = "error"
        /\ \A n \in 1..(Len(outcomes) - 1) : outcomes[n].kind # "error"
        /\ i = Len(outcomes) - 1
        /\ ~request.defined
        /\ Len(returnData) <= Len(outcomes) - 1

\* the first of two items got its reply, the call of the second failed:
\* execute threw, the record of the first item is not returned
C22_Witness ==
    /\ ~continueOnFail
    /\ pc = "thrown"
    /\ nItems = 2
    /\ Len(outcomes) = 2
    /\ outcomes[1].kind = "ok"
    /\ outcomes[2].kind = "error"
    /\ outcomes[2].sent
    /\ Len(returnData) = 1

\* the first of two items failed before its call: execute threw and the
\* second item was never started
C22_WitnessLaterItem ==
    /\ ~continueOnFail
    /\ pc = "thrown"
    /\ nItems = 2
    /\ i = 0
    /\ Len(outcomes) = 1
    /\ returnData = << >>

(***************************************************************************)
(* --------------------- claims on the SSE terminations ------------------ *)
(***************************************************************************)
\* C23: when the timer fires on a pending promise, the connection is
\* destroyed and the promise is resolved, with the messages collected so
\* far or, when there is none, with the one record
\* {error: 'SSE timeout - no data received'}; a promise settled by the
\* timer is never a rejected one.
C23_TimeoutResolves ==
    /\ [](settledBy = "timeout" => promise.state = "resolved")
    /\ [][(promise.state = "pending" /\ timeoutId = "armed" /\ timeoutId' = "fired") =>
             /\ promise'.state = "resolved"
             /\ settledBy' = "timeout"
             /\ conn' = "destroyed"
             /\ sseData' = sseData
             /\ PromiseValue' = IF Len(sseData) > 0 THEN sseData ELSE TimeoutRecord]_vars

\* the timer resolved the promise with two collected messages
C23_Witness ==
    /\ settledBy = "timeout"
    /\ promise.state = "resolved"
    /\ conn = "destroyed"
    /\ Len(sseData) = 2
    /\ PromiseValue = sseData

\* the timer resolved the promise with the synthetic record
C23_WitnessNoData ==
    /\ settledBy = "timeout"
    /\ conn = "destroyed"
    /\ sseData = << >>
    /\ PromiseValue = <<"SSE timeout - no data received">>

\* the lines of a sequence of events, in order
RECURSIVE LinesOfEvents(_)
LinesOfEvents(events) ==
    IF events = <<>> THEN <<>>
    ELSE SplitNL(Head(events), <<>>) \o LinesOfEvents(Tail(events))

\* the lines of the blank-line-terminated events of a text, and the text
\* after its last event boundary
CompleteLines(text) ==
    LinesOfEvents(SubSeq(Split2NL(text, <<>>), 1, Len(Split2NL(text, <<>>)) - 1))

TrailingText(text) == Split2NL(text, <<>>)[Len(Split2NL(text, <<>>))]

\* C24: a promise settled by the timer carries the messages of the data
\* lines of the complete events of the delivered text, and the synthetic
\* record when they hold none; the text after the last event boundary is
\* still in the buffer and none of its data lines is in the value.
C24_TimeoutDropsTrailingBuffer ==
    settledBy = "timeout" =>
        /\ buffer = TrailingText(stream)
        /\ PromiseValue =
              IF MessagesUpToResponse(CompleteLines(stream)) # <<>>
              THEN MessagesUpToResponse(CompleteLines(stream))
              ELSE <<"SSE timeout - no data received">>

\* the stream delivered one unterminated data line with a JSON payload and
\* the timer fired: the value is the synthetic record
C24_Witness ==
    /\ settledBy = "timeout"
    /\ stream = <<"D", "J2">>
    /\ buffer = <<"D", "J2">>
    /\ sseData = <<>>
    /\ PromiseValue = <<"SSE timeout - no data received">>

\* one complete event and one unterminated data line were delivered and
\* the timer fired: the value holds the message of the complete event only
C24_WitnessPartial ==
    /\ settledBy = "timeout"
    /\ stream = <<"D", "J1", "NL", "NL", "D", "J2">>
    /\ PromiseValue = <<"J1">>

\* C25: when the end of the stream settles the promise, its value is the
\* list of messages of the data lines of the whole delivered byte
\* sequence (what one chunk holding all of it would give), however the
\* bytes were split into chunks.
C25_ChunkBoundaryIndependent ==
    settledBy = "end" =>
        PromiseValue =
            FlushLines(LinesOfEvents(Split2NL(ChunkToString(rawBytes), <<>>)), <<>>)

\* the parsed payloads of the `data: ` lines among the given lines whose
\* trimmed content is JSON, in order
RECURSIVE DataLineMessages(_)
DataLineMessages(lines) ==
    IF lines = <<>> THEN <<>>
    ELSE (IF Head(lines) # <<>> /\ Head(Head(lines)) = "D"
             /\ JsonOk(Trim(Tail(Head(lines))))
          THEN <<JsonVal(Trim(Tail(Head(lines))))>>
          ELSE <<>>)
         \o DataLineMessages(Tail(lines))

\* C26: a promise settled by the end of the stream is resolved, and its
\* value is the messages of the complete events of the delivered text
\* followed by the payload of every JSON-parseable data line of the text
\* after the last event boundary, in the order of the text.
C26_EndFlushesTrailingEvent ==
    settledBy = "end" =>
        /\ promise.state = "resolved"
        /\ PromiseValue =
              MessagesUpToResponse(CompleteLines(stream))
              \o DataLineMessages(SplitNL(TrailingText(stream), <<>>))

\* one complete event, then text and a data line without the closing
\* blank line, then the end: both messages are in the value, in order
C26_Witness ==
    /\ settledBy = "end"
    /\ stream = <<"D", "J2", "NL", "NL", "X", "NL", "D", "J1", "NL">>
    /\ PromiseValue = <<"J2", "J1">>
    /\ conn = "ended"

\* the line is a `data: ` line whose trimmed payload is [DONE]
IsDoneLine(line) == line # <<>> /\ Head(line) = "D" /\ Trim(Tail(line)) = <<"DONE">>

\* the messages of the data lines that come before the first [DONE] line
RECURSIVE MessagesUpToDone(_)
MessagesUpToDone(lines) ==
    IF lines = <<>> THEN <<>>
    ELSE IF IsDoneLine(Head(lines)) THEN <<>>
    ELSE (IF Head(lines) # <<>> /\ Head(Head(lines)) = "D"
             /\ JsonOk(Trim(Tail(Head(lines))))
          THEN <<JsonVal(Trim(Tail(Head(lines))))>>
          ELSE <<>>)
         \o MessagesUpToDone(Tail(lines))

\* C27: once a complete event of the delivered text holds a [DONE] data
\* line the promise is resolved and the connection closed; when [DONE]
\* settled it, the value is exactly the messages of the data lines before
\* that line (none, when there is none), [DONE] is not among them, nothing
\* that follows it is, and the timer is cleared.
C27_DoneResolvesWithPrior ==
    /\ (\E n \in 1..Len(CompleteLines(stream)) : IsDoneLine(CompleteLines(stream)[n])) =>
          /\ promise.state = "resolved"
          /\ settledBy \in {"done", "terminal"}
          /\ conn \notin {"sent", "open"}
    /\ settledBy = "done" =>
          /\ promise.state = "resolved"
          /\ PromiseValue = MessagesUpToDone(CompleteLines(stream))
          /\ \A n \in 1..Len(PromiseValue) : PromiseValue[n] # "DONE"
          /\ timeoutId = "cleared"

\* a message, then [DONE] in the middle of an event that goes on, then a
\* further event in the same chunk: the value is the one message
C27_Witness ==
    /\ settledBy = "done"
    /\ conn = "destroyed"
    /\ stream = <<"D", "J1", "NL", "D", "DONE", "NL", "D", "J2", "NL", "NL",
                  "D", "R", "NL", "NL">>
    /\ PromiseValue = <<"J1">>

\* [DONE] came first: the value is the empty list
C27_WitnessEmpty ==
    /\ settledBy = "done"
    /\ stream = <<"D", "DONE", "NL", "NL">>
    /\ promise.state = "resolved"
    /\ PromiseValue = <<>>

\* the payload is a JSON text
ParseablePayload(dc) == dc \in {<<a>> : a \in JsonAtoms} \/ IsStringLiteral(dc)

\* a `data: ` line of a complete event whose payload is neither [DONE] nor
\* a JSON text, and a `data: ` line of the trailing text whose payload is
\* not a JSON text
MalformedLine(line) ==
    /\ line # <<>> /\ Head(line) = "D"
    /\ ~IsDoneLine(line)
    /\ ~ParseablePayload(Trim(Tail(line)))

MalformedTrailingLine(line) ==
    line # <<>> /\ Head(line) = "D" /\ ~ParseablePayload(Trim(Tail(line)))

\* the lines without the malformed ones
RECURSIVE DropMalformed(_)
DropMalformed(lines) ==
    IF lines = <<>> THEN <<>>
    ELSE (IF MalformedLine(Head(lines)) THEN <<>> ELSE <<Head(lines)>>)
         \o DropMalformed(Tail(lines))

RECURSIVE DropMalformedTrailing(_)
DropMalformedTrailing(lines) ==
    IF lines = <<>> THEN <<>>
    ELSE (IF MalformedTrailingLine(Head(lines)) THEN <<>> ELSE <<Head(lines)>>)
         \o DropMalformedTrailing(Tail(lines))

\* what lines that are all well formed accumulate: every payload up to
\* [DONE] or up to and including a result/error payload
RECURSIVE WellFormedMessages(_)
WellFormedMessages(lines) ==
    IF lines = <<>> THEN <<>>
    ELSE IF Head(lines) = <<>> \/ Head(Head(lines)) # "D"
    THEN WellFormedMessages(Tail(lines))
    ELSE IF IsDoneLine(Head(lines)) THEN <<>>
    ELSE IF JsonVal(Trim(Tail(Head(lines)))) \in {"R", "E"}
    THEN <<JsonVal(Trim(Tail(Head(lines))))>>
    ELSE <<JsonVal(Trim(Tail(Head(lines))))>> \o WellFormedMessages(Tail(lines))

\* every payload of the data lines, for the text flushed at the end
RECURSIVE WellFormedPayloads(_)
WellFormedPayloads(lines) ==
    IF lines = <<>> THEN <<>>
    ELSE (IF Head(lines) # <<>> /\ Head(Head(lines)) = "D"
          THEN <<JsonVal(Trim(Tail(Head(lines))))>>
          ELSE <<>>)
         \o WellFormedPayloads(Tail(lines))

\* a line that ends the exchange: [DONE] or a result/error payload
SettlingLine(line) ==
    \/ IsDoneLine(line)
    \/ /\ line # <<>> /\ Head(line) = "D"
       /\ Trim(Tail(line)) \in {<<"R">>, <<"E">>}

\* C28: the accumulated messages are those the delivered text would give
\* with its malformed data lines taken out; a malformed line does not
\* settle the promise (a promise settled from the data handler has a
\* [DONE] or result/error line among the well-formed lines) and does not
\* fail it (a rejection comes from a connection error only).
C28_MalformedSkipped ==
    /\ sseData =
          WellFormedMessages(DropMalformed(CompleteLines(stream)))
          \o (IF settledBy = "end"
              THEN WellFormedPayloads(
                       DropMalformedTrailing(SplitNL(TrailingText(stream), <<>>)))
              ELSE <<>>)
    /\ settledBy \in {"done", "terminal"} =>
          \E n \in 1..Len(DropMalformed(CompleteLines(stream))) :
              SettlingLine(DropMalformed(CompleteLines(stream))[n])
    /\ promise.state = "rejected" => settledBy \in {"resError", "reqError"}

\* a malformed line between two messages of one event, the promise still
\* pending and the connection open
C28_Witness ==
    /\ stream = <<"D", "J1", "NL", "D", "X", "NL", "D", "J2", "NL", "NL">>
    /\ sseData = <<"J1", "J2">>
    /\ promise.state = "pending"
    /\ conn = "open"

\* a malformed event, then a message, then the end of the stream
C28_WitnessEnd ==
    /\ stream = <<"D", "X", "NL", "NL", "D", "J1", "NL", "NL">>
    /\ settledBy = "end"
    /\ promise.state = "resolved"
    /\ PromiseValue = <<"J1">>

\* C29: a request error or a response-stream error on a promise that is
\* not yet settled rejects it; the rejection carries the error and none of
\* the messages collected so far, and a promise settled by such an error
\* is never a resolved one.
C29_ConnectionErrorRejects ==
    /\ [](settledBy \in {"resError", "reqError"} =>
             /\ promise.state = "rejected"
             /\ ~promise.alias
             /\ PromiseValue = IF settledBy = "resError"
                               THEN <<"SSE response error">>
                               ELSE <<"SSE request error">>)
    /\ [][(~isResolved /\ conn' = "errored") =>
             /\ promise'.state = "rejected"
             /\ settledBy' \in {"resError", "reqError"}
             /\ sseData' = sseData
             /\ \A n \in 1..Len(sseData) :
                    \A m \in 1..Len(PromiseValue') : PromiseValue'[m] # sseData[n]]_vars

\* the response stream failed after one message had been collected
C29_Witness ==
    /\ settledBy = "resError"
    /\ conn = "errored"
    /\ sseData = <<"J1">>
    /\ promise.state = "rejected"
    /\ PromiseValue = <<"SSE response error">>

\* the request failed before any response
C29_WitnessRequest ==
    /\ settledBy = "reqError"
    /\ stream = <<>>
    /\ promise.state = "rejected"
    /\ PromiseValue = <<"SSE request error">>

(***************************************************************************)
(* ------------------ claims on the writes of the cache ------------------ *)
(***************************************************************************)
\* the step ends lookup l, which was suspended at its POST
Settles(l) == lookups[l].pc = "awaiting" /\ lookups'[l].pc = "done"

\* C30: a step in which the catalog POST of a lookup fails changes neither
\* an entry nor a timestamp of the cache; every key has its entry and its
\* timestamp both stored or both missing; and the cache changes only in a
\* step in which a POST succeeds, which writes for that lookup's key, and
\* for no other, the response it returns together with that lookup's `now`.
C30_CacheWrites ==
    /\ [](\A k \in CacheKeys : staticList[k].defined <=> staticTime[k].defined)
    /\ [][\A l \in Lookups :
             (Settles(l) /\ last'.id = l /\ last'.outcome = "failed") =>
                 /\ staticList' = staticList
                 /\ staticTime' = staticTime]_vars
    /\ [][(staticList' # staticList \/ staticTime' # staticTime) =>
             \E l \in Lookups :
                 /\ Settles(l)
                 /\ last'.id = l
                 /\ last'.outcome \in {"stored", "storedEmpty"}
                 /\ staticList'[CacheKey(lookups[l].token)].defined
                 /\ ApiOptions(staticList'[CacheKey(lookups[l].token)].val) = last'.result
                 /\ staticTime'[CacheKey(lookups[l].token)] = Defined(lookups[l].at)
                 /\ \A k \in CacheKeys \ {CacheKey(lookups[l].token)} :
                        /\ staticList'[k] = staticList[k]
                        /\ staticTime'[k] = staticTime[k]]_vars

\* an entry stored earlier went stale, the POST that was to replace it
\* failed, and the entry and its timestamp are still the old ones
C30_Witness ==
    \E k \in CacheKeys :
        /\ staticList[k].defined
        /\ staticTime[k].defined
        /\ \E n \in 1..Len(calls[k]) :
               /\ calls[k][n].outcome = "failed"
               /\ calls[k][n].at - staticTime[k].val >= CACHE_DURATION
        /\ \A n \in 1..Len(calls[k]) :
               calls[k][n].outcome \in {"stored", "storedEmpty"} =>
                   calls[k][n].at = staticTime[k].val

\* the POST failed on an empty cache, and the key has neither entry nor
\* timestamp
C30_WitnessEmpty ==
    \E k \in CacheKeys :
        /\ ~staticList[k].defined
        /\ ~staticTime[k].defined
        /\ \E n \in 1..Len(calls[k]) : calls[k][n].outcome = "failed"

\* the first 20 characters of a token
Prefix20(token) == [c \in 1..(IF Len(token) < 20 THEN Len(token) ELSE 20) |-> token[c]]

\* the step is the call of lookup l with token t (served at once, or
\* suspended at its POST)
CalledWith(l, t) ==
    /\ lookups[l].pc = "idle"
    /\ \/ lookups'[l].pc = "awaiting" /\ lookups'[l].token = t
       \/ lookups'[l].pc = "done" /\ last'.id = l /\ last'.token = t

\* C31: when the lookup that completed last stored a non-empty response
\* for token t1, a lookup made less than 5 minutes after that one with a
\* different token t2 that has the same first 20 characters is served from
\* the entry t1 stored: it returns the options t1's lookup returned, is not
\* suspended at a POST, and records no POST for the key.
C31_SharedByPrefix ==
    [][\A l \in Lookups, t2 \in Tokens \ {NoToken} :
          (/\ CalledWith(l, t2)
           /\ last.outcome = "stored"
           /\ last.token # t2
           /\ last.token # NoToken
           /\ Prefix20(last.token) = Prefix20(t2)
           /\ now - staticTime[CacheKey(last.token)].val < CACHE_DURATION)
          => /\ lookups'[l].pc = "done"
             /\ last'.outcome = "hit"
             /\ ~last'.posted
             /\ last'.result = last.result
             /\ Len(calls'[CacheKey(t2)]) = Len(calls[CacheKey(t2)]) + 1
             /\ ~calls'[CacheKey(t2)][Len(calls'[CacheKey(t2)])].posted
             /\ \A m \in Lookups : lookups'[m].pc = "awaiting" => lookups[m].pc = "awaiting"
             /\ staticList' = staticList]_vars

\* the second token of the shared prefix was served the plugin list that
\* only the first token's catalog holds, without a POST
C31_Witness ==
    /\ last.outcome = "hit"
    /\ last.token = TokenA2
    /\ ~last.posted
    /\ last.result = ApiOptions(RespList1)
    /\ last.result # ApiOptions(CatalogOf(TokenA2))
    /\ TokenA1 # TokenA2
    /\ \A n \in 1..Len(calls[CacheKey(TokenA2)]) :
           calls[CacheKey(TokenA2)][n].posted => n = 1

(***************************************************************************)
(* ------------- claims on the precedence of headers and query ----------- *)
(***************************************************************************)
\* the value the last row named k gives
LastRowValue(rows, k) ==
    rows[CHOOSE n \in 1..Len(rows) :
            /\ rows[n].name = k
            /\ \A m \in (n + 1)..Len(rows) : rows[m].name # k].value

\* the value the last mapped field <<prefix, k>> gives
LastMappedValue(rows, prefix, k) ==
    rows[CHOOSE n \in 1..Len(rows) :
            /\ rows[n].key = <<prefix, k>>
            /\ \A m \in (n + 1)..Len(rows) : rows[m].key # <<prefix, k>>].value

\* the three sources of headers of an item, each as an object
CredSource(p) == IF p.credHeaders.kind = "empty" THEN EmptyObject ELSE p.credHeaders.val

UserSource(p) ==
    IF ~p.sendHeaders THEN EmptyObject
    ELSE IF p.specifyHeaders # "keypair" THEN p.headersJson.val
    ELSE IF ~p.headers.hasParameter THEN EmptyObject
    ELSE [k \in {p.headers.parameter[n].name : n \in 1..Len(p.headers.parameter)} |->
             LastRowValue(p.headers.parameter, k)]

MappedSource(p, prefix) ==
    IF ~p.parametersFields.hasValue THEN EmptyObject
    ELSE [k \in {p.parametersFields.value[n].key[2] :
                    n \in {m \in 1..Len(p.parametersFields.value) :
                              p.parametersFields.value[m].key[1] = prefix}} |->
             LastMappedValue(p.parametersFields.value, prefix, k)]

\* C32: every header key other than token that the credential headers, the
\* user headers or a mapped header_ field supplies is in the outbound
\* request, with the value of the mapped field when there is one, else of
\* the user headers when they have the key, else of the credential headers.
C32_HeaderPrecedence ==
    (node = "api" /\ pc = "await") =>
        \A k \in (DOMAIN CredSource(item.val) \cup DOMAIN UserSource(item.val)
                  \cup DOMAIN MappedSource(item.val, "header")) \ {"token"} :
            /\ k \in DOMAIN request.val.headers
            /\ request.val.headers[k] =
                  IF k \in DOMAIN MappedSource(item.val, "header")
                  THEN MappedSource(item.val, "header")[k]
                  ELSE IF k \in DOMAIN UserSource(item.val)
                  THEN UserSource(item.val)[k]
                  ELSE CredSource(item.val)[k]

\* the same, but for a supplied Content-Type whose value is the empty text
C32_HeaderPrecedenceButEmptyContentType ==
    (node = "api" /\ pc = "await") =>
        \A k \in (DOMAIN CredSource(item.val) \cup DOMAIN UserSource(item.val)
                  \cup DOMAIN MappedSource(item.val, "header")) \ {"token"} :
            LET expected == IF k \in DOMAIN MappedSource(item.val, "header")
                            THEN MappedSource(item.val, "header")[k]
                            ELSE IF k \in DOMAIN UserSource(item.val)
                            THEN UserSource(item.val)[k]
                            ELSE CredSource(item.val)[k]
            IN ~(k = "Content-Type" /\ expected = "") =>
                   /\ k \in DOMAIN request.val.headers
                   /\ request.val.headers[k] = expected

\* the user-declared query parameters of an item, as an object
UserQuerySource(p) ==
    IF ~p.sendQuery THEN EmptyObject
    ELSE IF p.specifyQuery # "keypair" THEN p.queryParametersJson.val
    ELSE IF ~p.queryParameters.hasParameter THEN EmptyObject
    ELSE [k \in {p.queryParameters.parameter[n].name :
                    n \in 1..Len(p.queryParameters.parameter)} |->
             LastRowValue(p.queryParameters.parameter, k)]

\* C33: the query of the outbound request has exactly the names of the
\* user-declared query (none when sendQuery is off) and of the mapped
\* query_ fields; a name has the value of its mapped field when there is
\* one, whether or not sendQuery is on, and its user-declared value
\* otherwise.
C33_QueryPrecedence ==
    (node = "api" /\ pc = "await") =>
        request.val.qs =
            [k \in DOMAIN UserQuerySource(item.val)
                   \cup DOMAIN MappedSource(item.val, "query") |->
                IF k \in DOMAIN MappedSource(item.val, "query")
                THEN MappedSource(item.val, "query")[k]
                ELSE UserQuerySource(item.val)[k]]

\* a user-declared city and a mapped query_city: the mapped value is sent
C33_Witness ==
    /\ node = "api"
    /\ pc = "await"
    /\ item.val.sendQuery
    /\ UserQuerySource(item.val) = [city |-> "Paris"]
    /\ MappedSource(item.val, "query") = [city |-> "Oslo"]
    /\ request.val.qs = [city |-> "Oslo"]

\* sendQuery off and two mapped query_ fields: both are sent
C33_WitnessQueryOff ==
    /\ node = "api"
    /\ pc = "await"
    /\ ~item.val.sendQuery
    /\ request.val.qs = [units |-> "metric", page |-> "2"]

\* a user-declared JSON query and mapped fields: one name overridden, one
\* kept, one added
C33_WitnessMixed ==
    /\ node = "api"
    /\ pc = "await"
    /\ item.val.sendQuery
    /\ item.val.specifyQuery = "json"
    /\ request.val.qs = [city |-> "Rome", units |-> "metric", page |-> "2"]

(***************************************************************************)
(* -------- claims on the fields of the parameter resource mapper -------- *)
(***************************************************************************)
\* the fields getParametersFields returns for the item's selection and method
FieldsOfItem(p) ==
    GetParametersFields([apiSelection |-> p.apiSelection, method |-> p.method,
                         scenario |-> p.scenario, token |-> p.token])

\* the item supplies a value under the id of every field, and under no
\* other key
FilledItem(p) ==
    /\ p.parametersFields.hasValue
    /\ FieldsOfItem(p) # << >>
    /\ {p.parametersFields.value[n].key : n \in 1..Len(p.parametersFields.value)}
          = {FieldsOfItem(p)[n].id : n \in 1..Len(FieldsOfItem(p))}

\* the parameters of the operation the item calls
ParametersOfItem(p) ==
    MethodData(p.apiSelection.data.interface.paths[1].methods,
               ToLowerCase(p.method)).parameters

\* C34: for an item that supplies a value under the id of every field
\* getParametersFields derives, the outbound request has, for every
\* parameter of the operation, the value supplied under `<in>_<name>` as
\* query parameter <name> when in is query and as header <name> otherwise.
C34_FieldsHonoured ==
    (node = "api" /\ pc = "await" /\ FilledItem(item.val)) =>
        \A n \in 1..Len(ParametersOfItem(item.val)) :
            LET param == ParametersOfItem(item.val)[n]
                supplied == LastMappedValue(item.val.parametersFields.value,
                                            param.in, param.name)
            IN IF param.in = "query"
               THEN /\ param.name \in DOMAIN request.val.qs
                    /\ request.val.qs[param.name] = supplied
               ELSE /\ param.name \in DOMAIN request.val.headers
                    /\ request.val.headers[param.name] = supplied

\* the same for the parameters in query and in header other than a header
\* named token
C34_QueryAndHeaderFieldsHonoured ==
    (node = "api" /\ pc = "await" /\ FilledItem(item.val)) =>
        \A n \in 1..Len(ParametersOfItem(item.val)) :
            LET param == ParametersOfItem(item.val)[n]
                supplied == LastMappedValue(item.val.parametersFields.value,
                                            param.in, param.name)
            IN /\ (param.in = "query") =>
                      /\ param.name \in DOMAIN request.val.qs
                      /\ request.val.qs[param.name] = supplied
               /\ (param.in = "header" /\ param.name # "token") =>
                      /\ param.name \in DOMAIN request.val.headers
                      /\ request.val.headers[param.name] = supplied

\* a request is out for an item that filled in the five fields of the
\* order operation: the path and cookie fields are in neither the query
\* nor the headers
C34_DroppedFields ==
    /\ node = "api" /\ pc = "await" /\ FilledItem(item.val)
    /\ item.val.apiSelection = OrdersSelection
    /\ Len(FieldsOfItem(item.val)) = 5
    /\ request.val.qs = [page |-> "page"]
    /\ DOMAIN request.val.headers = {"token", "X-Trace"}

C35_WitnessMcp ==
    /\ node = "mcp"
    /\ pc = "await"
    /\ i = 1
    /\ Len(returnData) = 1
    /\ request.val.method = "POST"
    /\ request.val.body = Def(McpEnvelope(item.val))

(***************************************************************************)
(* ---------------- claims on the degraded scenario list ----------------- *)
(***************************************************************************)
\* C36: after the scenario-list call was rejected getScenarioList has
\* returned exactly the sentinel option and the option with value error;
\* after it answered with a status other than 1, without a list or with an
\* empty list, it has returned exactly the sentinel option and an option
\* with value no_scenario; in both cases no detail GET was issued.
C36_ScenarioListDegrades ==
    /\ listResponse.kind = "rejected" =>
          /\ loadPc = "returned"
          /\ scenariosWithContent = << >>
          /\ returned =
                << [name |-> "Use Default Request Body", value |-> "no_use_scenario"],
                   [name |-> "Failed to load scenario list. Please check network connection.",
                    value |-> "error"] >>
    /\ (/\ listResponse.kind = "response"
        /\ \/ listResponse.val.status # 1
           \/ ~listResponse.val.hasList
           \/ listResponse.val.list = << >>) =>
          /\ loadPc = "returned"
          /\ scenariosWithContent = << >>
          /\ Len(returned) = 2
          /\ returned[1] = [name |-> "Use Default Request Body", value |-> "no_use_scenario"]
          /\ returned[2].value = "no_scenario"

\* the scenario-list call was rejected and the two options were returned
C36_Witness ==
    /\ loadOp = "getScenarioList"
    /\ listResponse.kind = "rejected"
    /\ loadPc = "returned"
    /\ Len(returned) = 2
    /\ returned[2].value = "error"

\* the call answered status 0 with a list of one scenario
C36_WitnessStatus ==
    /\ loadOp = "getScenarioList"
    /\ listResponse.kind = "response"
    /\ listResponse.val.status = 0
    /\ listResponse.val.list # << >>
    /\ loadPc = "returned"
    /\ returned[2].value = "no_scenario"

(***************************************************************************)
(* ---------------- claims on the output of the MCP node ----------------- *)
(***************************************************************************)
\* C37: in the MCP node with continueOnFail on, every item the loop has
\* gone past has left exactly one record, paired to its index, so that the
\* returned output is as long as the input.
C37_OneRecordPerItem ==
    (node = "mcp" /\ continueOnFail) =>
        /\ pc \in {"loop", "returned"} => Len(returnData) = i
        /\ \A n \in 1..Len(returnData) : returnData[n].pairedItem.item = n - 1
        /\ pc = "returned" => Len(returnData) = nItems

\* the same for batches whose items all have connectionType sse or http
C37_OneRecordPerSseOrHttpItem ==
    (/\ node = "mcp" /\ continueOnFail
     /\ \A n \in 1..Len(outcomes) : outcomes[n].kind # "skipped") =>
        /\ pc \in {"loop", "returned"} => Len(returnData) = i
        /\ \A n \in 1..Len(returnData) : returnData[n].pairedItem.item = n - 1
        /\ pc = "returned" => Len(returnData) = nItems

\* a batch of two items returned one record: the first item had a
\* connectionType that is neither sse nor http and left nothing
C37_ItemWithoutRecord ==
    /\ node = "mcp"
    /\ continueOnFail
    /\ pc = "returned"
    /\ nItems = 2
    /\ outcomes[1].kind = "skipped"
    /\ outcomes[2].kind = "ok"
    /\ Len(returnData) = 1
    /\ returnData[1].pairedItem.item = 1

\* the step pushes the record of an SSE item whose promise resolved
SseItemAnswered ==
    /\ node = "mcp"
    /\ pc = "await"
    /\ item.val.connectionType = "sse"
    /\ pc' = "loop"
    /\ Len(returnData') = Len(returnData) + 1
    /\ outcomes'[Len(outcomes')].kind = "ok"

C38_WitnessNone ==
    /\ node = "mcp"
    /\ Len(returnData) = 1
    /\ returnData[1].json = [messages |-> << >>, messageCount |-> 0]

\* two messages: the record wraps them in their order
C38_WitnessTwo ==
    /\ node = "mcp"
    /\ Len(returnData) = 1
    /\ returnData[1].json =
          [messages |-> << [progress |-> "1"], [result |-> "ok"] >>, messageCount |-> 2]

\* C39: the envelope in the body of the POST of the HTTP transport has
\* jsonrpc '2.0', the operation as method and the clock reading as id; its
\* params is {name: toolName, arguments} for tools/call, {name:
\* promptName, arguments} for prompts/get, {uri} for resources/read, and
\* it has no params key for any other operation.
C39_EnvelopeParams ==
    (node = "mcp" /\ pc = "await" /\ item.val.connectionType = "http") =>
        /\ request.val.body.defined
        /\ request.val.body.val.jsonrpc = "2.0"
        /\ request.val.body.val.method = item.val.operation
        /\ request.val.body.val.id = item.val.dateNow
        /\ IF item.val.operation = "tools/call"
           THEN /\ DOMAIN request.val.body.val = {"jsonrpc", "method", "id", "params"}
                /\ request.val.body.val.params =
                      [name |-> item.val.toolName, arguments |-> item.val.parameters.val]
           ELSE IF item.val.operation = "prompts/get"
           THEN /\ DOMAIN request.val.body.val = {"jsonrpc", "method", "id", "params"}
                /\ request.val.body.val.params =
                      [name |-> item.val.promptName, arguments |-> item.val.parameters.val]
           ELSE IF item.val.operation = "resources/read"
           THEN /\ DOMAIN request.val.body.val = {"jsonrpc", "method", "id", "params"}
                /\ request.val.body.val.params = [uri |-> item.val.resourceUri]
           ELSE DOMAIN request.val.body.val = {"jsonrpc", "method", "id"}

\* a tools/call envelope with parsed arguments is out
C39_Witness ==
    /\ node = "mcp"
    /\ pc = "await"
    /\ item.val.connectionType = "http"
    /\ item.val.operation = "tools/call"
    /\ request.val.body.val.params = [name |-> "search", arguments |-> [q |-> "1"]]

\* a prompts/list envelope without params is out
C39_WitnessNoParams ==
    /\ node = "mcp"
    /\ pc = "await"
    /\ item.val.connectionType = "http"
    /\ item.val.operation = "prompts/list"
    /\ request.val.body.val = [jsonrpc |-> "2.0", method |-> "prompts/list", id |-> 1700000000]

\* a resources/read envelope is out
C39_WitnessUri ==
    /\ node = "mcp"
    /\ pc = "await"
    /\ item.val.connectionType = "http"
    /\ item.val.operation = "resources/read"
    /\ request.val.body.val.params = [uri |-> "file:///a"]

====
